---- MODULE Spec2Model ----
(***************************************************************************)
(* State-machine model of napari's Shapes layer                            *)
(* (src/napari/layers/shapes/shapes.py): the shape collection with its     *)
(* parallel colour and property arrays, the selection, the interaction     *)
(* mode machine with its mouse callback lists, in-progress drawing and     *)
(* its finalisation, and the thumbnail-update suppression scope.           *)
(*                                                                         *)
(* Geometry is abstracted: a shape is its kind, its number of stored       *)
(* vertices and its z-index; a colour is a name.  Python indices are       *)
(* 0-based, TLA+ sequences 1-based: shape i of the code is shapes[i + 1].  *)
(*                                                                         *)
(* Every method of the layer is an operator from a layer record L to the   *)
(* layer record after the call.  A call that raises keeps the assignments  *)
(* made before the raise and records the exception in L.exc; callers       *)
(* propagate it.                                                           *)
(***************************************************************************)
EXTENDS Integers, Sequences, FiniteSets, TLC

\* ------------------------------------------------------------------ bounds
MaxShapes == 2      \* most shapes the collection is grown to through its API
MaxDrawn == 1       \* most shapes in a collection that is only drawn into
MaxVerts == 4       \* most stored vertices of a path or polygon being drawn
MaxZ == 1           \* z-indices above this are not raised further
MaxStale == 1       \* most rows a colour or property array is let run ahead
MaxScopes == 1      \* caller-level suppression scopes open at once
MaxLoopLevel == 2   \* most event loops nested in the application thread
MaxPlane == 1       \* slice positions run from 0 to this on a sliced dimension

\* Python's None where an index is expected (_value, _moving_value)
None == -1

\* ------------------------------------------------------------- vocabularies
Modes == {"PAN_ZOOM", "SELECT", "DIRECT", "VERTEX_INSERT", "VERTEX_REMOVE",
          "ADD_RECTANGLE", "ADD_ELLIPSE", "ADD_LINE", "ADD_PATH", "ADD_POLYGON"}

ShapeTypes == {"rectangle", "ellipse", "line", "path", "polygon"}

\* Box enum order followed by the centre: the 9 points of a shape's _box
Box9 == <<"TOP_LEFT", "TOP_CENTER", "TOP_RIGHT", "CENTER_RIGHT", "BOTTOM_RIGHT",
          "BOTTOM_CENTER", "BOTTOM_LEFT", "CENTER_LEFT", "CENTER">>

\* Python None for _selected_box
NoBox == <<>>

\* Python {} for _clipboard
EmptyClipboard == [data |-> <<>>, edge_color |-> <<>>, face_color |-> <<>>,
                   properties |-> [k \in {} |-> <<>>], indices |-> <<>>]

\* ------------------------------------------------------------ small helpers
Repeat(x, n) == [j \in 1..n |-> x]

\* seq[:n]: a slice takes what there is
Take(seq, n) == SubSeq(seq, 1, IF n < Len(seq) THEN n ELSE Len(seq))

\* del seq[i] / list.pop(i) for a 0-based i inside the list
RemoveAt(seq, i) ==
    [j \in 1..(Len(seq) - 1) |-> IF j < i + 1 THEN seq[j] ELSE seq[j + 1]]

RECURSIVE NpDelete(_, _)
\* np.delete(seq, list(index), axis=0): every row whose 0-based position is in index goes
NpDelete(seq, index) ==
    IF seq = <<>> THEN <<>>
    ELSE LET rest == NpDelete(Take(seq, Len(seq) - 1), index)
         IN IF (Len(seq) - 1) \in index THEN rest ELSE Append(rest, seq[Len(seq)])

RECURSIVE SortedList(_)
\* the members of a set of indices in ascending order
SortedList(S) ==
    IF S = {} THEN <<>>
    ELSE LET m == CHOOSE x \in S : \A y \in S : y <= x
         IN Append(SortedList(S \ {m}), m)

\* max(self._data_view._z_index, default=d)
MaxZIndex(shapes, d) ==
    IF shapes = <<>> THEN d
    ELSE CHOOSE m \in {shapes[j].z : j \in 1..Len(shapes)} :
             \A j \in 1..Len(shapes) : shapes[j].z <= m

\* min(self._data_view._z_index)
MinZIndex(shapes) ==
    CHOOSE m \in {shapes[j].z : j \in 1..Len(shapes)} :
        \A j \in 1..Len(shapes) : m <= shapes[j].z

Raise(L, e) == [L EXCEPT !.exc = e]

\* the statements of a call as they run: "color" where a colour is computed
\* from a colour cycle map or a colormap, "properties" where the property
\* arrays are written, "shapes" where the shape list is written, and the
\* name of the mode where the mode event is emitted
Did(L, label) == [L EXCEPT !.steps = Append(@, label)]

\* the one value of a set of equal values
TheValue(S) == CHOOSE x \in S : TRUE

\* sequencing: what one step leaves is handed to the steps after it
Then(left, Rest(_)) == TheValue({Rest(after) : after \in {left}})

\* ------------------------------------------------- shape models / ShapeList
\* Number of vertices a shape of kind st stores when built from n points,
\* 0 when construction fails: a rectangle or an ellipse is normalised from
\* 2 corners to 4, a line has exactly 2 points, a path at least 2 and a
\* polygon at least 3.
StoredVertices(st, n) ==
    CASE st \in {"rectangle", "ellipse"} -> IF n \in {2, 4} THEN 4 ELSE 0
      [] st = "line" -> IF n = 2 THEN 2 ELSE 0
      [] st = "path" -> IF n >= 2 THEN n ELSE 0
      [] st = "polygon" -> IF n >= 3 THEN n ELSE 0
      [] OTHER -> 0

\* ShapeList.add(shape, edge_color=ec, face_color=fc): appends the shape and
\* one row to each colour array
DataViewAdd(L, shape, ec, fc) ==
    [L EXCEPT !.shapes = Append(@, shape),
              !.edge_color = Append(@, ec),
              !.face_color = Append(@, fc)]

\* ShapeList.remove(index): drops the shape (and its z-index) and renumbers
\* the later ones.  It leaves the colour arrays alone: remove_selected
\* deletes the colour rows itself after calling it.
DataViewRemove(L, index) ==
    [L EXCEPT !.shapes = RemoveAt(@, index)]

\* ShapeList.edit(index, data, new_type=None): replaces the vertices of a
\* shape, keeps its style; an invalid vertex count for the kind raises
DataViewEdit(L, index, n, new_type) ==
    LET st == IF new_type = "" THEN L.shapes[index + 1].kind ELSE new_type
    IN IF StoredVertices(st, n) = 0 THEN Raise(L, "ValueError")
       ELSE [L EXCEPT !.shapes[index + 1].kind = st,
                      !.shapes[index + 1].n = StoredVertices(st, n)]

\* --------------------------------------------------------------- selection
\* Shapes.interaction_box for a set of indices (the caller has checked that
\* a single index exists)
interaction_box_NoHandle(L, index) ==
    IF index = {} THEN NoBox ELSE Box9

interaction_box(L, index) ==
    IF index = {} THEN NoBox ELSE Append(Box9, "ROTATION_HANDLE")

\* Shapes.selected_data setter
SelectedDataSet_KeepsCurrent(L, selected_data) ==
    IF Cardinality(selected_data) = 1 /\ TheValue(selected_data) >= Len(L.shapes)
    THEN Raise([L EXCEPT !.selected_data = selected_data], "IndexError")
    ELSE [L EXCEPT !.selected_data = selected_data,
                   !.selected_box = interaction_box(L, selected_data)]

SelectedDataSet(L, selected_data) ==
    LET idx == selected_data IN
    Then([L EXCEPT !.selected_data = selected_data], LAMBDA L1 :
    IF Cardinality(idx) = 1 /\ TheValue(idx) >= Len(L.shapes)
    THEN Raise(L1, "IndexError")
    ELSE
    Then([L1 EXCEPT !.selected_box = interaction_box(L1, idx)], LAMBDA L2 :
    IF idx = {} THEN L2
    ELSE IF \E i \in idx : i >= Len(L.face_color) THEN Raise(L2, "IndexError")
    ELSE
    LET face_colors == {L.face_color[i + 1] : i \in idx} IN
    Then(IF Cardinality(face_colors) = 1
         THEN [L2 EXCEPT !.current_face_color = TheValue(face_colors)]
         ELSE L2, LAMBDA L3 :
    IF \E i \in idx : i >= Len(L.edge_color) THEN Raise(L3, "IndexError")
    ELSE
    LET edge_colors == {L.edge_color[i + 1] : i \in idx} IN
    Then(IF Cardinality(edge_colors) = 1
         THEN [L3 EXCEPT !.current_edge_color = TheValue(edge_colors)]
         ELSE L3, LAMBDA L4 :
    IF \E i \in idx : i >= Len(L.shapes) THEN Raise(L4, "IndexError")
    ELSE
    LET edge_width == {L.shapes[i + 1].w : i \in idx} IN
    Then(IF Cardinality(edge_width) = 1
         THEN [L4 EXCEPT !.current_edge_width = TheValue(edge_width)]
         ELSE L4, LAMBDA L5 :
    IF \E k \in DOMAIN L.properties : \E i \in idx : i >= Len(L.properties[k])
    THEN Raise(L5, "IndexError")
    ELSE
    LET properties == [k \in DOMAIN L.properties |->
                          {L.properties[k][i + 1] : i \in idx}]
    IN IF \A k \in DOMAIN properties : Cardinality(properties[k]) = 1
       THEN [L5 EXCEPT !.current_properties =
                          [k \in DOMAIN properties |-> TheValue(properties[k])]]
       ELSE L5)))))

\* ------------------------------------------------------------ finalisation
\* _finish_drawing, the branch of ADD_PATH
FinishPath(L, index) ==
    IF index = None THEN Raise(L, "TypeError")
    ELSE IF index >= Len(L.shapes) THEN Raise(L, "IndexError")
    ELSE IF L.shapes[index + 1].n <= 2
         THEN DataViewRemove(L, index)
         ELSE DataViewEdit(L, index, L.shapes[index + 1].n - 1, "")

\* _finish_drawing, the branch of ADD_POLYGON
FinishPolygon_PathThreshold(L, index) ==
    IF index = None THEN Raise(L, "TypeError")
    ELSE IF index >= Len(L.shapes) THEN Raise(L, "IndexError")
    ELSE IF L.shapes[index + 1].n <= 2
         THEN DataViewRemove(L, index)
         ELSE DataViewEdit(L, index, L.shapes[index + 1].n - 1, "")

FinishPolygon(L, index) ==
    IF index = None THEN Raise(L, "TypeError")
    ELSE IF index >= Len(L.shapes) THEN Raise(L, "IndexError")
    ELSE IF L.shapes[index + 1].n <= 3
         THEN DataViewRemove(L, index)
         ELSE DataViewEdit(L, index, L.shapes[index + 1].n - 1, "")

\* the transient fields _finish_drawing resets before it looks at the shape
ResetDrawState_KeepsDragBox(L) ==
    [L EXCEPT !.drag_start = "None",
              !.is_selecting = FALSE, !.fixed_vertex = "None",
              !.value = <<None, None>>, !.moving_value = <<None, None>>]

ResetDrawState(L) ==
    [L EXCEPT !.drag_start = "None", !.drag_box = "None",
              !.is_selecting = FALSE, !.fixed_vertex = "None",
              !.value = <<None, None>>, !.moving_value = <<None, None>>]

\* Shapes._finish_drawing
FinishDrawing_KeepsSelection(L) ==
    LET index == L.moving_value[1] IN
    Then(ResetDrawState([L EXCEPT !.is_moving = FALSE]), LAMBDA L2 :
    Then(IF L2.is_creating /\ L2.mode = "ADD_PATH"
         THEN FinishPath(L2, index) ELSE L2, LAMBDA L3 :
    Then(IF L3.exc = "" /\ L3.is_creating /\ L3.mode = "ADD_POLYGON"
         THEN FinishPolygon(L3, index) ELSE L3, LAMBDA L4 :
    IF L4.exc # "" THEN L4 ELSE [L4 EXCEPT !.is_creating = FALSE])))

FinishDrawing(L) ==
    LET index == L.moving_value[1] IN
    Then(SelectedDataSet([L EXCEPT !.is_moving = FALSE], {}), LAMBDA L1 :
    Then(ResetDrawState(L1), LAMBDA L2 :
    Then(IF L2.is_creating /\ L2.mode = "ADD_PATH"
         THEN FinishPath(L2, index) ELSE L2, LAMBDA L3 :
    Then(IF L3.exc = "" /\ L3.is_creating /\ L3.mode = "ADD_POLYGON"
         THEN FinishPolygon(L3, index) ELSE L3, LAMBDA L4 :
    IF L4.exc # "" THEN L4 ELSE [L4 EXCEPT !.is_creating = FALSE]))))

\* ------------------------------------------------- thumbnail suppression
\* block_thumbnail_update, up to the yield
BlockThumbnailEnter(L) == [L EXCEPT !.allow_thumbnail_update = FALSE]

\* block_thumbnail_update, after the yield: reached only when the body
\* returns, the generator has no try/finally around the yield
BlockThumbnailExit(L) ==
    IF L.exc # "" THEN L ELSE [L EXCEPT !.allow_thumbnail_update = TRUE]

\* -------------------------------------------------------------- mode machine
draw_modes_EditModesOnly == {"SELECT", "DIRECT"}

draw_modes == {"SELECT", "DIRECT", "VERTEX_INSERT", "VERTEX_REMOVE"}

\* list.remove(x): drops the first x, ValueError when there is none
ListRemove(seq, x) ==
    LET first == CHOOSE j \in 1..Len(seq) :
                    seq[j] = x /\ \A h \in 1..(j - 1) : seq[h] # x
    IN RemoveAt(seq, first - 1)

Has(seq, x) == \E j \in 1..Len(seq) : seq[j] = x

\* the drag and move callbacks the mode setter removes for old_mode
OldDragCallback_ForgetsVertexRemove(old_mode) ==
    CASE old_mode \in {"SELECT", "DIRECT"} -> <<"select">>
      [] old_mode = "VERTEX_INSERT" -> <<"vertex_insert">>
      [] old_mode = "ADD_RECTANGLE" -> <<"add_rectangle">>
      [] old_mode = "ADD_ELLIPSE" -> <<"add_ellipse">>
      [] old_mode = "ADD_LINE" -> <<"add_line">>
      [] old_mode \in {"ADD_PATH", "ADD_POLYGON"} -> <<"add_path_polygon">>
      [] OTHER -> <<>>

OldDragCallback(old_mode) ==
    CASE old_mode \in {"SELECT", "DIRECT"} -> <<"select">>
      [] old_mode = "VERTEX_INSERT" -> <<"vertex_insert">>
      [] old_mode = "VERTEX_REMOVE" -> <<"vertex_remove">>
      [] old_mode = "ADD_RECTANGLE" -> <<"add_rectangle">>
      [] old_mode = "ADD_ELLIPSE" -> <<"add_ellipse">>
      [] old_mode = "ADD_LINE" -> <<"add_line">>
      [] old_mode \in {"ADD_PATH", "ADD_POLYGON"} -> <<"add_path_polygon">>
      [] OTHER -> <<>>

OldMoveCallback(old_mode) ==
    CASE old_mode \in {"SELECT", "DIRECT", "VERTEX_INSERT", "VERTEX_REMOVE"} ->
             <<"highlight">>
      [] old_mode \in {"ADD_PATH", "ADD_POLYGON"} -> <<"add_path_polygon_creating">>
      [] OTHER -> <<>>

\* mode setter, the chain of removals for old_mode
Unregister(L, old_mode) ==
    LET drag == OldDragCallback(old_mode)
        move == OldMoveCallback(old_mode)
    IN IF drag # <<>> /\ ~Has(L.mouse_drag_callbacks, drag[1])
       THEN Raise(L, "ValueError")
       ELSE
       LET L1 == IF drag = <<>> THEN L
                 ELSE [L EXCEPT !.mouse_drag_callbacks = ListRemove(@, drag[1])]
       IN IF move # <<>> /\ ~Has(L1.mouse_move_callbacks, move[1])
          THEN Raise(L1, "ValueError")
          ELSE IF move = <<>> THEN L1
          ELSE [L1 EXCEPT !.mouse_move_callbacks = ListRemove(@, move[1])]

\* the cursor the mode setter sets for the new mode
CursorOf_VertexPointing(mode) ==
    CASE mode = "PAN_ZOOM" -> "standard"
      [] mode \in {"SELECT", "DIRECT", "VERTEX_INSERT", "VERTEX_REMOVE"} -> "pointing"
      [] OTHER -> "cross"

CursorOf(mode) ==
    CASE mode = "PAN_ZOOM" -> "standard"
      [] mode \in {"SELECT", "DIRECT"} -> "pointing"
      [] mode \in {"VERTEX_INSERT", "VERTEX_REMOVE"} -> "cross"
      [] mode \in {"ADD_RECTANGLE", "ADD_ELLIPSE", "ADD_LINE"} -> "cross"
      [] mode \in {"ADD_PATH", "ADD_POLYGON"} -> "cross"

\* the camera lock the mode setter sets for the new mode
InteractiveOf(mode) ==
    CASE mode = "PAN_ZOOM" -> TRUE
      [] mode \in {"SELECT", "DIRECT"} -> FALSE
      [] mode \in {"VERTEX_INSERT", "VERTEX_REMOVE"} -> FALSE
      [] mode \in {"ADD_RECTANGLE", "ADD_ELLIPSE", "ADD_LINE"} -> FALSE
      [] mode \in {"ADD_PATH", "ADD_POLYGON"} -> FALSE

\* the help text the mode setter sets for the new mode
HelpOf(mode) ==
    CASE mode = "PAN_ZOOM" -> "enter a selection mode to edit shape properties"
      [] mode \in {"SELECT", "DIRECT"} ->
             "hold <space> to pan/zoom, press <BACKSPACE> to remove selected"
      [] mode \in {"VERTEX_INSERT", "VERTEX_REMOVE"} -> "hold <space> to pan/zoom"
      [] mode \in {"ADD_RECTANGLE", "ADD_ELLIPSE", "ADD_LINE"} ->
             "hold <space> to pan/zoom"
      [] mode \in {"ADD_PATH", "ADD_POLYGON"} ->
             "hold <space> to pan/zoom, press <esc> to finish drawing"

\* the drag and move callbacks the mode setter appends for the new mode
NewDragCallback(mode) ==
    CASE mode \in {"SELECT", "DIRECT"} -> <<"select">>
      [] mode = "VERTEX_INSERT" -> <<"vertex_insert">>
      [] mode = "VERTEX_REMOVE" -> <<"vertex_remove">>
      [] mode = "ADD_RECTANGLE" -> <<"add_rectangle">>
      [] mode = "ADD_ELLIPSE" -> <<"add_ellipse">>
      [] mode = "ADD_LINE" -> <<"add_line">>
      [] mode \in {"ADD_PATH", "ADD_POLYGON"} -> <<"add_path_polygon">>
      [] OTHER -> <<>>

NewMoveCallback(mode) ==
    CASE mode \in {"SELECT", "DIRECT"} -> <<"highlight">>
      [] mode \in {"VERTEX_INSERT", "VERTEX_REMOVE"} -> <<"highlight">>
      [] mode \in {"ADD_PATH", "ADD_POLYGON"} -> <<"add_path_polygon_creating">>
      [] OTHER -> <<>>

\* mode setter, the chain that sets cursor, interactive and help and
\* appends the callbacks of the new mode
Register(L, mode) ==
    IF mode \notin Modes THEN Raise(L, "ValueError")
    ELSE [L EXCEPT !.cursor = CursorOf(mode),
                   !.interactive = InteractiveOf(mode),
                   !.help = HelpOf(mode),
                   !.mouse_drag_callbacks = @ \o NewDragCallback(mode),
                   !.mouse_move_callbacks = @ \o NewMoveCallback(mode)]

\* mode setter, the end: finalise unless both modes are draw modes
FinishOrRefresh_OnlyLeavingGroup(L, mode, old_mode) ==
    IF old_mode \in draw_modes /\ mode \notin draw_modes
    THEN FinishDrawing(L)
    ELSE L

FinishOrRefresh(L, mode, old_mode) ==
    IF ~(mode \in draw_modes /\ old_mode \in draw_modes)
    THEN FinishDrawing(L)
    ELSE L

\* the mode the setter goes on with: PAN_ZOOM when the layer is not editable
EffectiveMode_NoDowngrade(L, mode) == mode

EffectiveMode(L, mode) == IF ~L.editable THEN "PAN_ZOOM" ELSE mode

\* Shapes.mode setter; events.mode(mode=mode) is logged under the mode's name
ModeSet_NoEarlyReturn(L, requested) ==
    LET mode == EffectiveMode(L, requested)
        old_mode == L.mode
    IN
    Then(Unregister(L, old_mode), LAMBDA L1 :
    IF L1.exc # "" THEN L1
    ELSE
    Then(Register(L1, mode), LAMBDA L2 :
    IF L2.exc # "" THEN L2
    ELSE
    Then(BlockThumbnailEnter(Did([L2 EXCEPT !.mode = mode], mode)), LAMBDA L4 :
    Then(FinishOrRefresh(L4, mode, old_mode), BlockThumbnailExit))))

ModeSet(L, requested) ==
    LET mode == EffectiveMode(L, requested)
        old_mode == L.mode
    IN
    IF mode = L.mode THEN L
    ELSE
    Then(Unregister(L, old_mode), LAMBDA L1 :
    IF L1.exc # "" THEN L1
    ELSE
    Then(Register(L1, mode), LAMBDA L2 :
    IF L2.exc # "" THEN L2
    ELSE
    Then(BlockThumbnailEnter(Did([L2 EXCEPT !.mode = mode], mode)), LAMBDA L4 :
    Then(FinishOrRefresh(L4, mode, old_mode), BlockThumbnailExit))))

\* Layer.editable setter followed by Shapes._set_editable(editable=editable)
EditableSet(L, editable) ==
    IF L.editable = editable THEN L
    ELSE LET L1 == [L EXCEPT !.editable = editable]
         IN IF ~L1.editable THEN ModeSet(L1, "PAN_ZOOM") ELSE L1

\* Shapes._set_editable() with editable=None
SetEditable(L) ==
    Then(EditableSet(L, L.ndisplay # 3), LAMBDA L1 :
    IF L1.exc # "" THEN L1
    ELSE IF ~L1.editable THEN ModeSet(L1, "PAN_ZOOM") ELSE L1)

\* ------------------------------------------------------------------ colours
\* the two colour channels of a layer
Attributes == {"edge", "face"}

ColorModes == {"DIRECT", "CYCLE", "COLORMAP"}

\* the colour cycle a layer gets when none is given
DEFAULT_COLOR_CYCLE == <<"magenta", "green">>

\* contrast limits that are not set (None)
NoLimits == <<>>

\* a colour cycle map without entries ({})
EmptyMap == [v \in {} |-> ""]

\* the order in which a properties dict lists its keys
PropertyOrder == <<"p", "q", "n">>

\* is key a listed before key b in a properties dict
Precedes(a, b) ==
    \E i, j \in 1..Len(PropertyOrder) :
        i < j /\ PropertyOrder[i] = a /\ PropertyOrder[j] = b

\* the properties whose arrays have a numeric dtype
NumericProperties == {"n"}

\* the values found in a property's array, in ascending order
PropertyValues(k) ==
    IF k \in NumericProperties THEN <<0, 1>>
    ELSE IF k = "p" THEN <<"a", "b">> ELSE <<"x", "y">>

\* warnings.warn(w)
Warn(L, w) == [L EXCEPT !.warnings = @ \cup {w}]

\* next(iter(properties)): the first key of a non-empty properties dict
FirstKey(props) ==
    LET Present(k) == k \in DOMAIN props
    IN SelectSeq(PropertyOrder, Present)[1]

\* np.unique of the array of property k: its distinct values, ascending
Unique(k, array) ==
    LET Occurs(v) == \E j \in 1..Len(array) : array[j] = v
    IN SelectSeq(PropertyValues(k), Occurs)

\* setattr(self._data_view, f'{attribute}_color', colors)
WithColors(L, attribute, colors) ==
    IF attribute = "edge" THEN [L EXCEPT !.edge_color = colors]
    ELSE [L EXCEPT !.face_color = colors]

\* the colour next(color_cycle) returns
NextColor(L, attribute) ==
    L.color_cycle[attribute][L.color_cycle_pos[attribute] + 1]

\* color_cycle_map[prop] = transform_color(next(color_cycle))
MapNext(L, attribute, prop) ==
    [L EXCEPT !.color_cycle_map[attribute] =
                  [v \in (DOMAIN @) \cup {prop} |->
                      IF v = prop THEN NextColor(L, attribute) ELSE @[v]],
              !.color_cycle_pos[attribute] = (@ + 1) % Len(L.color_cycle[attribute])]

RECURSIVE MapEach(_, _, _)
\* one entry of the colour cycle map per value of props, each with the next
\* colour of the cycle
MapEach(L, attribute, props) ==
    IF props = <<>> THEN L
    ELSE Then(MapNext(L, attribute, Head(props)),
              LAMBDA mapped : MapEach(mapped, attribute, Tail(props)))

\* the contrast limits map_property computes from an array: its min and max
MinMax(array) ==
    LET values == {array[j] : j \in 1..Len(array)}
    IN <<CHOOSE lo \in values : \A v \in values : lo <= v,
         CHOOSE hi \in values : \A v \in values : v <= hi>>

\* the colour map_property gives a value under contrast limits: its position
\* between the limits, clipped
ColormapColor(v, contrast_limits) ==
    IF v <= contrast_limits[1] THEN "cmap_0"
    ELSE IF v >= contrast_limits[2] THEN "cmap_1"
    ELSE "cmap_mid"

\* _map_color in CYCLE mode with update_color_mapping: a new colour cycle
\* map, one entry per unique property value
MapColorCycleRebuild_KeepsStaleKeys(L, attribute, color_property) ==
    LET NotInMap(v) == v \notin DOMAIN L.color_cycle_map[attribute]
    IN MapEach(L, attribute,
               SelectSeq(Unique(color_property, L.properties[color_property]),
                         NotInMap))

MapColorCycleRebuild(L, attribute, color_property) ==
    MapEach([L EXCEPT !.color_cycle_map[attribute] = EmptyMap], attribute,
            Unique(color_property, L.properties[color_property]))

\* _map_color in CYCLE mode without update_color_mapping: entries are added
\* for the property values that are not in the colour cycle map
MapColorCycleFill_Rebuilds(L, attribute, color_property) ==
    MapEach([L EXCEPT !.color_cycle_map[attribute] = EmptyMap], attribute,
            Unique(color_property, L.properties[color_property]))

MapColorCycleFill(L, attribute, color_property) ==
    LET NotInMap(v) == v \notin DOMAIN L.color_cycle_map[attribute]
    IN MapEach(L, attribute,
               SelectSeq(Unique(color_property, L.properties[color_property]),
                         NotInMap))

\* _map_color in CYCLE mode, the colour cycle map it leaves
MapColorCycle(L, attribute, color_property, update_color_mapping) ==
    IF update_color_mapping
    THEN MapColorCycleRebuild(L, attribute, color_property)
    ELSE MapColorCycleFill(L, attribute, color_property)

\* _map_color in COLORMAP mode, the contrast limits it leaves
MapColorLimits_AlwaysRecomputes(L, attribute, color_property, update_color_mapping) ==
    LET color_properties == L.properties[color_property]
    IN IF Len(color_properties) > 0
       THEN [L EXCEPT !.contrast_limits[attribute] = MinMax(color_properties)]
       ELSE L

MapColorLimits(L, attribute, color_property, update_color_mapping) ==
    LET color_properties == L.properties[color_property]
    IN IF Len(color_properties) > 0
          /\ (update_color_mapping \/ L.contrast_limits[attribute] = NoLimits)
       THEN [L EXCEPT !.contrast_limits[attribute] = MinMax(color_properties)]
       ELSE L

\* _map_color, the state it leaves
MapColor(L, attribute, update_color_mapping) ==
    LET color_property == L.color_property[attribute]
    IN IF L.color_mode[attribute] = "DIRECT" THEN L
       ELSE IF color_property \notin DOMAIN L.properties THEN Raise(L, "KeyError")
       ELSE IF L.color_mode[attribute] = "CYCLE"
       THEN MapColorCycle(L, attribute, color_property, update_color_mapping)
       ELSE MapColorLimits(L, attribute, color_property, update_color_mapping)

\* _map_color, the colours it returns, from the state it leaves
MappedColors(L, attribute) ==
    LET color_properties == L.properties[L.color_property[attribute]]
    IN IF L.color_mode[attribute] = "CYCLE"
       THEN [j \in 1..Len(color_properties) |->
                L.color_cycle_map[attribute][color_properties[j]]]
       ELSE [j \in 1..Len(color_properties) |->
                ColormapColor(color_properties[j], L.contrast_limits[attribute])]

\* _refresh_color, after _map_color
RefreshColorStore(L, attribute) ==
    IF L.exc # "" THEN L ELSE WithColors(L, attribute, MappedColors(L, attribute))

\* _refresh_color
RefreshColor(L, attribute, update_color_mapping) ==
    IF L.exc = "" /\ L.color_mode[attribute] \in {"CYCLE", "COLORMAP"}
    THEN Then(MapColor(L, attribute, update_color_mapping),
              LAMBDA mapped : Did(RefreshColorStore(mapped, attribute), "color"))
    ELSE L

\* refresh_colors: the face channel, then the edge channel
RefreshColors(L, update_color_mapping) ==
    Then(RefreshColor(L, "face", update_color_mapping),
         LAMBDA faces : RefreshColor(faces, "edge", update_color_mapping))

\* _set_color_mode to DIRECT
SetDirect_Recolors(L, attribute) ==
    WithColors([L EXCEPT !.color_mode[attribute] = "DIRECT"], attribute,
               Repeat(IF attribute = "edge" THEN L.current_edge_color
                      ELSE L.current_face_color, Len(L.shapes)))

SetDirect(L, attribute) == [L EXCEPT !.color_mode[attribute] = "DIRECT"]

\* _set_color_mode to CYCLE or COLORMAP: the colour property, taken from the
\* first property of the layer when none is designated
AutoSelectProperty_LeavesUnset(L, attribute) ==
    IF L.color_property[attribute] = "" /\ DOMAIN L.properties = {}
    THEN Raise(L, "ValueError")
    ELSE L

AutoSelectProperty(L, attribute) ==
    IF L.color_property[attribute] = ""
    THEN IF DOMAIN L.properties # {}
         THEN Warn([L EXCEPT !.color_property[attribute] = FirstKey(L.properties)],
                   "color_property was not set")
         ELSE Raise(L, "ValueError")
    ELSE L

\* _set_color_mode to CYCLE or COLORMAP, from the numeric check on
SetMappedMode(L, color_mode, attribute) ==
    IF L.exc # "" THEN L
    ELSE IF color_mode = "COLORMAP"
            /\ L.color_property[attribute] \notin DOMAIN L.properties
    THEN Raise(L, "KeyError")
    ELSE IF color_mode = "COLORMAP"
            /\ L.color_property[attribute] \notin NumericProperties
    THEN Raise(L, "TypeError")
    ELSE RefreshColors([L EXCEPT !.color_mode[attribute] = color_mode], FALSE)

\* Shapes._set_color_mode
SetColorMode(L, color_mode, attribute) ==
    IF color_mode \notin ColorModes THEN Raise(L, "ValueError")
    ELSE IF color_mode = "DIRECT" THEN SetDirect(L, attribute)
    ELSE Then(AutoSelectProperty(L, attribute),
              LAMBDA selected : SetMappedMode(selected, color_mode, attribute))

\* Shapes._set_color_cycle
SetColorCycle(L, color_cycle, attribute) ==
    IF L.color_mode[attribute] = "CYCLE"
    THEN RefreshColors([L EXCEPT !.color_cycle[attribute] = color_cycle,
                                 !.color_cycle_pos[attribute] = 0], TRUE)
    ELSE [L EXCEPT !.color_cycle[attribute] = color_cycle,
                   !.color_cycle_pos[attribute] = 0]

\* ------------------------------------------------------------- properties
\* _validate_properties: every array has one entry per shape
ValidateProperties_NoCheck(L, properties) == L

ValidateProperties(L, properties) ==
    IF \E k \in DOMAIN properties : Len(properties[k]) # Len(L.shapes)
    THEN Raise(L, "ValueError")
    ELSE L

\* properties setter: a colour property that is no longer a property is unset
DropColorProperty(L, attribute) ==
    IF L.color_property[attribute] # ""
       /\ L.color_property[attribute] \notin DOMAIN L.properties
    THEN Warn([L EXCEPT !.color_property[attribute] = ""],
              "property used for color dropped")
    ELSE L

\* properties setter, once the properties are validated
PropertiesStore(L, properties) ==
    IF L.exc # "" THEN L
    ELSE Then(DropColorProperty(Did([L EXCEPT !.properties = properties],
                                    "properties"), "face"),
              LAMBDA dropped : DropColorProperty(dropped, "edge"))

\* Shapes.properties setter
PropertiesSet(L, properties) ==
    Then(ValidateProperties(L, properties),
         LAMBDA validated : PropertiesStore(validated, properties))

\* ------------------------------------------------------------ adding shapes
\* An argument that may be one value for all shapes or a list with one entry
\* per shape (what ensure_iterable and zip see); NoArg is an omitted one.
Scalar(v) == [scalar |-> TRUE, v |-> v]

List(v) == [scalar |-> FALSE, v |-> v]

NoArg == Scalar(None)

IsNone(a) == a.scalar /\ a.v = None

\* `z_index or default`: None, 0 and the empty list are all falsy
ZIndexOr(z_index, default) ==
    IF (z_index.scalar /\ z_index.v \in {None, 0})
       \/ (~z_index.scalar /\ z_index.v = <<>>)
    THEN Scalar(default)
    ELSE z_index

\* the default z-index of add and _add_shapes
DefaultZIndex_Zero(L) == 0

DefaultZIndex(L) == MaxZIndex(L.shapes, -1) + 1

\* transform_color_with_defaults then normalize_and_broadcast_colors: one
\* colour is broadcast, a list of the wrong length is replaced by the default
BroadcastColors(n, colors, default) ==
    IF Len(colors) = n THEN colors
    ELSE IF Len(colors) = 1 THEN Repeat(colors[1], n)
    ELSE Repeat(default, n)

\* _get_new_shape_color, the state it leaves: in CYCLE mode the colour cycle
\* map gets an entry for the current value of the colour property
NewShapeColorMap(L, attribute) ==
    IF L.exc # "" \/ L.color_mode[attribute] = "DIRECT" THEN L
    ELSE IF L.color_property[attribute] \notin DOMAIN L.current_properties
    THEN Raise(L, "KeyError")
    ELSE IF L.color_mode[attribute] = "CYCLE"
            /\ L.current_properties[L.color_property[attribute]]
                   \notin DOMAIN L.color_cycle_map[attribute]
    THEN Did(MapNext(L, attribute, L.current_properties[L.color_property[attribute]]),
             "color")
    ELSE Did(L, "color")

RECURSIVE NewShapeColors(_, _)
\* _get_new_shape_color called for each of the channels in turn
NewShapeColors(L, attributes) ==
    IF attributes = <<>> THEN L
    ELSE Then(NewShapeColorMap(L, Head(attributes)),
              LAMBDA mapped : NewShapeColors(mapped, Tail(attributes)))

\* _get_new_shape_color, the colours it returns
GetNewShapeColor(L, adding, attribute) ==
    IF L.color_mode[attribute] = "DIRECT"
    THEN Repeat(IF attribute = "edge" THEN L.current_edge_color
                ELSE L.current_face_color, adding)
    ELSE LET color_property_value == L.current_properties[L.color_property[attribute]]
             color_cycle_map == L.color_cycle_map[attribute]
             contrast_limits == L.contrast_limits[attribute]
         IN IF L.color_mode[attribute] = "CYCLE"
            THEN Repeat(IF color_property_value \in DOMAIN color_cycle_map
                        THEN color_cycle_map[color_property_value]
                        ELSE NextColor(L, attribute), adding)
            ELSE Repeat(ColormapColor(color_property_value,
                                      IF contrast_limits = NoLimits
                                      THEN <<color_property_value, color_property_value>>
                                      ELSE contrast_limits), adding)

\* length of zip(data, ensure_iterable(shape_type), ..., ensure_iterable(z_index))
ZipLen(data, shape_type, edge_width, z_index) ==
    LET lens == {Len(data)}
                \cup (IF shape_type.scalar THEN {} ELSE {Len(shape_type.v)})
                \cup (IF edge_width.scalar THEN {} ELSE {Len(edge_width.v)})
                \cup (IF z_index.scalar THEN {} ELSE {Len(z_index.v)})
    IN CHOOSE m \in lens : \A x \in lens : m <= x

EntryAt(a, j) == IF a.scalar THEN a.v ELSE a.v[j]

RECURSIVE AddShapesToView(_, _)
\* _add_shapes_to_view: builds and appends the shapes one by one; a shape
\* that cannot be built raises and leaves the ones before it added
AddShapesToView(L, shape_inputs) ==
    IF shape_inputs = <<>> THEN L
    ELSE LET x == Head(shape_inputs)
         IN IF x.st \notin ShapeTypes \/ StoredVertices(x.st, x.d) = 0
            THEN Raise(L, "ValueError")
            ELSE Then(DataViewAdd(L, [kind |-> x.st, n |-> StoredVertices(x.st, x.d),
                                      z |-> x.z, w |-> x.ew, p |-> <<0, 0>>],
                                  x.ec, x.fc),
                      LAMBDA added :
                 Then(Tail(shape_inputs),
                      LAMBDA rest : AddShapesToView(added, rest)))

\* Shapes._add_shapes (colours are lists here, add has resolved them)
AddShapes(L, data, shape_type, edge_width0, edge_color, face_color, z_index0) ==
    LET z_index == ZIndexOr(z_index0, DefaultZIndex(L))
        edge_width == IF IsNone(edge_width0) THEN Scalar(L.current_edge_width)
                      ELSE edge_width0
        ec == BroadcastColors(Len(data), edge_color, "white")
        fc == BroadcastColors(Len(data), face_color, "white")
        shape_inputs == [j \in 1..ZipLen(data, shape_type, edge_width, z_index) |->
                           [d |-> data[j], st |-> EntryAt(shape_type, j),
                            ew |-> EntryAt(edge_width, j),
                            ec |-> ec[j], fc |-> fc[j], z |-> EntryAt(z_index, j)]]
    IN Then(IF Len(data) > 0
            THEN Then(shape_inputs,
                      LAMBDA inputs : Did(AddShapesToView(L, inputs), "shapes"))
            ELSE L, LAMBDA added :
       IF added.exc # "" THEN added
       ELSE [added EXCEPT !.view.order_stored = added.view.order,
                          !.ndisplay_stored = added.ndisplay])

\* Shapes.add, the property bookkeeping before _add_shapes
PadProperties_PadsFirstValue(L, n_new_shapes) ==
    [L EXCEPT !.properties =
        [k \in DOMAIN L.properties |->
            L.properties[k] \o Repeat(PropertyValues(k)[1], n_new_shapes)]]

PadProperties(L, n_new_shapes) ==
    LET keys == DOMAIN L.properties
        n_prop_values == IF keys # {}
                         THEN Len(L.properties[FirstKey(L.properties)]) ELSE 0
        total_shapes == n_new_shapes + Len(L.shapes)
        missing == {k \in keys : k \notin DOMAIN L.current_properties}
    IN IF total_shapes > n_prop_values
       THEN IF missing = {}
            THEN [L EXCEPT !.properties =
                     [k \in keys |-> L.properties[k] \o
                          Repeat(L.current_properties[k], total_shapes - n_prop_values)]]
            ELSE Raise([L EXCEPT !.properties =
                           [k \in keys |->
                               IF \E m \in missing : m = k \/ Precedes(m, k)
                               THEN L.properties[k]
                               ELSE L.properties[k] \o
                                    Repeat(L.current_properties[k],
                                           total_shapes - n_prop_values)]],
                       "KeyError")
       ELSE IF total_shapes < n_prop_values
       THEN [L EXCEPT !.properties =
                [k \in keys |-> Take(L.properties[k], total_shapes)]]
       ELSE L

\* Shapes.add, from the properties on, with the colours of the new shapes
AddPadded(L, data, shape_type, edge_width, edge_color, face_color, z_index) ==
    IF L.exc # "" THEN L
    ELSE AddShapes(L, data, shape_type, edge_width, edge_color, face_color, z_index)

\* Shapes.add, once _get_new_shape_color has run for the colours left None
AddColored(L, data, shape_type, edge_width0, edge_color0, face_color0, z_index0) ==
    IF L.exc # "" \/ Len(data) = 0 THEN L
    ELSE Then(Did(PadProperties(L, Len(data)), "properties"), LAMBDA padded :
         AddPadded(padded, data, shape_type,
                   IF IsNone(edge_width0) THEN Scalar(L.current_edge_width)
                   ELSE edge_width0,
                   IF IsNone(edge_color0) THEN GetNewShapeColor(L, Len(data), "edge")
                   ELSE edge_color0.v,
                   IF IsNone(face_color0) THEN GetNewShapeColor(L, Len(data), "face")
                   ELSE face_color0.v,
                   ZIndexOr(z_index0, DefaultZIndex(L))))

\* Shapes.add
Add(L, data, shape_type, edge_width0, edge_color0, face_color0, z_index0) ==
    Then(NewShapeColors(L, (IF IsNone(edge_color0) THEN <<"edge">> ELSE <<>>)
                           \o (IF IsNone(face_color0) THEN <<"face">> ELSE <<>>)),
         LAMBDA mapped : AddColored(mapped, data, shape_type, edge_width0,
                                    edge_color0, face_color0, z_index0))

\* Shapes.data setter: the shape types, widths, z-indices and colours it carries
\* over from the shapes it replaces, trimmed or padded to the new number of shapes
DataSetArgs(L, n_new_shapes) ==
    LET nshapes == Len(L.shapes)
        types == [j \in 1..nshapes |-> L.shapes[j].kind]
        widths == [j \in 1..nshapes |-> L.shapes[j].w]
        zs == [j \in 1..nshapes |-> L.shapes[j].z]
        diff == n_new_shapes - nshapes
    IN [shape_type |-> IF nshapes > n_new_shapes THEN Take(types, n_new_shapes)
                       ELSE IF nshapes < n_new_shapes
                       THEN types \o Repeat("rectangle", diff) ELSE types,
        edge_widths |-> IF nshapes > n_new_shapes THEN Take(widths, n_new_shapes)
                        ELSE IF nshapes < n_new_shapes
                        THEN widths \o Repeat(1, diff) ELSE widths,
        z_indices |-> IF nshapes > n_new_shapes THEN Take(zs, n_new_shapes)
                      ELSE IF nshapes < n_new_shapes
                      THEN zs \o Repeat(0, diff) ELSE zs,
        edge_color |-> IF nshapes > n_new_shapes THEN Take(L.edge_color, n_new_shapes)
                       ELSE IF nshapes < n_new_shapes
                       THEN L.edge_color \o GetNewShapeColor(L, diff, "edge")
                       ELSE L.edge_color,
        face_color |-> IF nshapes > n_new_shapes THEN Take(L.face_color, n_new_shapes)
                       ELSE IF nshapes < n_new_shapes
                       THEN L.face_color \o GetNewShapeColor(L, diff, "face")
                       ELSE L.face_color]

\* Shapes.data setter: a fresh shape list, then add with the carried-over styles
DataSetAdd(L, data, args) ==
    Add([L EXCEPT !.shapes = <<>>, !.edge_color = <<>>, !.face_color = <<>>],
        data, List(args.shape_type), List(args.edge_widths), List(args.edge_color),
        List(args.face_color), List(args.z_indices))

\* Shapes.data setter: _set_editable once the shapes are added
DataSetEnd(L) == IF L.exc # "" THEN L ELSE SetEditable(L)

\* Shapes.data setter, once _get_new_shape_color has run for the added shapes
DataSetCarry(L, data) ==
    IF L.exc # "" THEN L
    ELSE Then(DataSetArgs(L, Len(data)), LAMBDA args :
              Then(DataSetAdd(L, data, args), DataSetEnd))

\* Shapes.data setter after _finish_drawing
DataSetBegin(L, data) ==
    IF L.exc # "" THEN L
    ELSE Then(IF Len(L.shapes) < Len(data)
              THEN NewShapeColors(L, <<"edge", "face">>) ELSE L,
              LAMBDA mapped : DataSetCarry(mapped, data))

\* Shapes.data setter
DataSet_NoFinish(L, data) == DataSetBegin(L, data)

DataSet(L, data) ==
    Then(FinishDrawing(L), LAMBDA finished : DataSetBegin(finished, data))

\* ------------------------------------------------------- the sliced view
\* The layer has three dimensions.  view.order is _dims_order, view.point the
\* entries of _slice_indices on dimensions 0 and 1 (dimension 2 is always
\* displayed), view.order_stored is _display_order_stored and view.slice_key
\* is _data_view.slice_key.  A shape's p holds the coordinate its vertices
\* share on dimensions 0 and 1.

\* _dims_not_displayed: the dimensions of the order before the displayed ones
DimsNotDisplayed(L) == IF L.ndisplay = 3 THEN <<>> ELSE <<L.view.order[1]>>

\* np.array(self._slice_indices)[list(self._dims_not_displayed)]
SliceKey(L) ==
    [j \in 1..Len(DimsNotDisplayed(L)) |-> L.view.point[DimsNotDisplayed(L)[j] + 1]]

\* ------------------------------------------------- remove, z-order, clipboard
RECURSIVE RemoveEach(_, _)
\* remove_selected, the loop over the indices in descending order
RemoveEach(L, to_remove) ==
    IF to_remove = <<>> THEN L
    ELSE LET ind == to_remove[Len(to_remove)]
         IN IF ind >= Len(L.shapes) THEN Raise(L, "IndexError")
            ELSE Then(DataViewRemove(L, ind), LAMBDA removed :
                      RemoveEach(removed, Take(to_remove, Len(to_remove) - 1)))

\* remove_selected, the deletion of the property and colour rows
DeleteRows(L, index) ==
    LET failing == {k \in DOMAIN L.properties :
                       \E i \in index : i >= Len(L.properties[k])}
    IN
    IF failing # {}
    THEN Raise([L EXCEPT !.properties =
                   [k \in DOMAIN L.properties |->
                       IF \E m \in failing : m = k \/ Precedes(m, k)
                       THEN L.properties[k]
                       ELSE NpDelete(L.properties[k], index)]], "IndexError")
    ELSE
    Then([L EXCEPT !.properties =
             [k \in DOMAIN L.properties |-> NpDelete(L.properties[k], index)]],
         LAMBDA L1 :
    IF \E i \in index : i >= Len(L1.edge_color) THEN Raise(L1, "IndexError")
    ELSE Then([L1 EXCEPT !.edge_color = NpDelete(@, index)], LAMBDA L2 :
         IF \E i \in index : i >= Len(L2.face_color) THEN Raise(L2, "IndexError")
         ELSE [L2 EXCEPT !.face_color = NpDelete(@, index)]))

\* Shapes.remove_selected
RemoveSelected(L) ==
    LET index == L.selected_data IN
    Then(Did(RemoveEach(L, SortedList(index)), "shapes"), LAMBDA L1 :
    IF L1.exc # "" THEN L1
    ELSE Then(IF index # {} THEN Did(DeleteRows(L1, index), "properties") ELSE L1,
              LAMBDA L2 :
         IF L2.exc # "" THEN L2
         ELSE Then(SelectedDataSet(L2, {}), FinishDrawing)))

\* Shapes.move_to_front
MoveToFront_ToMaximum(L) ==
    IF L.selected_data = {} THEN L
    ELSE LET new_z_index == MaxZIndex(L.shapes, 0)
         IN [L EXCEPT !.shapes = [j \in 1..Len(L.shapes) |->
                 IF (j - 1) \in L.selected_data
                 THEN [L.shapes[j] EXCEPT !.z = new_z_index] ELSE L.shapes[j]]]

MoveToFront(L) ==
    IF L.selected_data = {} THEN L
    ELSE LET new_z_index == MaxZIndex(L.shapes, 0) + 1
         IN [L EXCEPT !.shapes = [j \in 1..Len(L.shapes) |->
                 IF (j - 1) \in L.selected_data
                 THEN [L.shapes[j] EXCEPT !.z = new_z_index] ELSE L.shapes[j]]]

\* Shapes.move_to_back
MoveToBack(L) ==
    IF L.selected_data = {} THEN L
    ELSE LET new_z_index == MinZIndex(L.shapes) - 1
         IN [L EXCEPT !.shapes = [j \in 1..Len(L.shapes) |->
                 IF (j - 1) \in L.selected_data
                 THEN [L.shapes[j] EXCEPT !.z = new_z_index] ELSE L.shapes[j]]]

\* Shapes._copy_data
CopyData(L) ==
    IF L.selected_data = {} THEN [L EXCEPT !.clipboard = EmptyClipboard]
    ELSE IF \E i \in L.selected_data :
               i >= Len(L.shapes) \/ i >= Len(L.edge_color) \/ i >= Len(L.face_color)
                 \/ \E k \in DOMAIN L.properties : i >= Len(L.properties[k])
    THEN Raise(L, "IndexError")
    ELSE LET index == SortedList(L.selected_data)
             Pick(seq) == [j \in 1..Len(index) |-> seq[index[j] + 1]]
         IN [L EXCEPT !.clipboard =
                [data |-> Pick(L.shapes), edge_color |-> Pick(L.edge_color),
                 face_color |-> Pick(L.face_color),
                 properties |-> [k \in DOMAIN L.properties |-> Pick(L.properties[k])],
                 indices |-> L.view.point]]

RECURSIVE PasteShapes_NoShift(_, _)
PasteShapes_NoShift(L, j) ==
    IF j > Len(L.clipboard.data) THEN L
    ELSE Then(DataViewAdd(L, L.clipboard.data[j], L.clipboard.edge_color[j],
                          L.clipboard.face_color[j]),
              LAMBDA pasted : PasteShapes_NoShift(pasted, j + 1))

RECURSIVE PasteShapes(_, _)
\* _paste_data, the loop that adds the clipboard's shapes
PasteShapes(L, j) ==
    IF j > Len(L.clipboard.data) THEN L
    ELSE LET s == L.clipboard.data[j]
             moved == {d + 1 : d \in {DimsNotDisplayed(L)[i] :
                                         i \in 1..Len(DimsNotDisplayed(L))}}
             data == [d \in 1..2 |->
                        IF d \in moved
                        THEN s.p[d] + (L.view.point[d] - L.clipboard.indices[d])
                        ELSE s.p[d]]
         IN Then(DataViewAdd(L, [s EXCEPT !.p = data], L.clipboard.edge_color[j],
                             L.clipboard.face_color[j]),
                 LAMBDA pasted : PasteShapes(pasted, j + 1))

\* Shapes._paste_data
PasteData_KeepsZIndex(L) ==
    LET cur_shapes == Len(L.shapes) IN
    IF L.clipboard.data = <<>> THEN L
    ELSE
    Then([L EXCEPT !.properties =
             [k \in DOMAIN L.properties |->
                 L.properties[k] \o L.clipboard.properties[k]]], LAMBDA L1 :
    Then(PasteShapes(L1, 1), LAMBDA L2 :
    SelectedDataSet(L2, cur_shapes..(cur_shapes + Len(L.clipboard.data) - 1))))

PasteData(L) ==
    LET cur_shapes == Len(L.shapes) IN
    IF L.clipboard.data = <<>> THEN L
    ELSE
    Then([L EXCEPT !.properties =
             [k \in DOMAIN L.properties |->
                 L.properties[k] \o L.clipboard.properties[k]]], LAMBDA L1 :
    Then(PasteShapes(L1, 1), LAMBDA L2 :
    Then(SelectedDataSet(L2, cur_shapes..(cur_shapes + Len(L.clipboard.data) - 1)),
         LAMBDA L3 : IF L3.exc # "" THEN L3 ELSE MoveToFront(L3))))

\* ------------------------------------------------- the selected box, moved
\* Where a linear map about the centre of the box takes the points of the
\* box: "half turn" is the rotation by 180 degrees and the scaling by -1,
\* "flip" the map [[1, 0], [0, -1]].  The 8 corners and midpoints go round
\* the box, the centre stays, the rotation handle goes to the other side.
BoxImage(box, how) ==
    LET Ring(p) == CHOOSE i \in 1..8 : Box9[i] = p
        Image(p) ==
            IF p = "CENTER" THEN p
            ELSE IF p = "ROTATION_HANDLE" THEN "ROTATION_HANDLE_BELOW"
            ELSE IF p = "ROTATION_HANDLE_BELOW" THEN "ROTATION_HANDLE"
            ELSE IF how = "half turn" THEN Box9[((Ring(p) + 3) % 8) + 1]
            ELSE Box9[((7 - Ring(p)) % 8) + 1]
    IN [i \in 1..Len(box) |-> Image(box[i])]

\* Shapes._rotate_box(angle, center), for angle 180 and the centre of the box
RotateBox_Deselects(L) ==
    IF L.selected_box = NoBox THEN Raise(L, "TypeError")
    ELSE [L EXCEPT !.selected_box = BoxImage(@, "half turn"), !.selected_data = {}]

RotateBox(L) ==
    IF L.selected_box = NoBox THEN Raise(L, "TypeError")
    ELSE [L EXCEPT !.selected_box = BoxImage(@, "half turn")]

\* Shapes._scale_box(scale, center), for scale -1 and the centre of the box:
\* the handle is put back at its length from the image of the top centre,
\* in the direction it has there
ScaleBox(L) ==
    IF L.selected_box = NoBox THEN Raise(L, "TypeError")
    ELSE [L EXCEPT !.selected_box = BoxImage(@, "half turn")]

\* Shapes._transform_box(transform, center), for the transform
\* [[1, 0], [0, -1]] and the centre of the box
TransformBox(L) ==
    IF L.selected_box = NoBox THEN Raise(L, "TypeError")
    ELSE [L EXCEPT !.selected_box = BoxImage(@, "flip")]

\* ------------------------------------------------- the current style values
\* update_properties is _update_properties as the setter finds it: False
\* inside a block_update_properties scope of the caller, True outside

\* Shapes.current_edge_width setter
CurrentEdgeWidthSet_AllShapes(L, edge_width, update_properties) ==
    [L EXCEPT !.current_edge_width = edge_width,
              !.shapes = [j \in 1..Len(L.shapes) |->
                             [L.shapes[j] EXCEPT !.w = edge_width]]]

CurrentEdgeWidthSet(L, edge_width, update_properties) ==
    Then([L EXCEPT !.current_edge_width = edge_width], LAMBDA L1 :
    IF ~update_properties THEN L1
    ELSE IF \E i \in L1.selected_data : i >= Len(L1.shapes)
    THEN Raise(L1, "IndexError")
    ELSE [L1 EXCEPT !.shapes = [j \in 1..Len(L1.shapes) |->
                                   IF (j - 1) \in L1.selected_data
                                   THEN [L1.shapes[j] EXCEPT !.w = edge_width]
                                   ELSE L1.shapes[j]]])

\* Shapes.current_edge_color setter and Shapes.current_face_color setter
CurrentColorSet(L, attribute, color, update_properties) ==
    LET colors == IF attribute = "edge" THEN L.edge_color ELSE L.face_color
        updated == [j \in 1..Len(colors) |->
                       IF (j - 1) \in L.selected_data THEN color ELSE colors[j]]
    IN
    Then(IF attribute = "edge" THEN [L EXCEPT !.current_edge_color = color]
         ELSE [L EXCEPT !.current_face_color = color], LAMBDA L1 :
    IF ~update_properties THEN L1
    ELSE IF \E i \in L1.selected_data : i >= Len(colors)
    THEN Raise(L1, "IndexError")
    ELSE IF attribute = "edge" THEN [L1 EXCEPT !.edge_color = updated]
    ELSE [L1 EXCEPT !.face_color = updated])

\* ------------------------------------------------------------ view slicing
\* Shapes._set_view_slice
SetViewSlice_IgnoresSliceKey(L) ==
    Then(IF L.ndisplay # L.ndisplay_stored
         THEN Then(SelectedDataSet(L, {}), LAMBDA L1 :
                   [L1 EXCEPT !.ndisplay_stored = L.ndisplay,
                              !.clipboard = EmptyClipboard])
         ELSE L, LAMBDA L2 :
    Then(IF L2.view.order # L2.view.order_stored
         THEN Then(SelectedDataSet(L2, {}), LAMBDA L3 :
                   [L3 EXCEPT !.view.order_stored = L2.view.order,
                              !.clipboard = EmptyClipboard])
         ELSE L2, LAMBDA L4 :
    [L4 EXCEPT !.view.slice_key = SliceKey(L4)]))

SetViewSlice(L) ==
    Then(IF L.ndisplay # L.ndisplay_stored
         THEN Then(SelectedDataSet(L, {}), LAMBDA L1 :
                   [L1 EXCEPT !.ndisplay_stored = L.ndisplay,
                              !.clipboard = EmptyClipboard])
         ELSE L, LAMBDA L2 :
    Then(IF L2.view.order # L2.view.order_stored
         THEN Then(SelectedDataSet(L2, {}), LAMBDA L3 :
                   [L3 EXCEPT !.view.order_stored = L2.view.order,
                              !.clipboard = EmptyClipboard])
         ELSE L2, LAMBDA L4 :
    Then(IF SliceKey(L4) # L4.view.slice_key
         THEN SelectedDataSet(L4, {})
         ELSE L4, LAMBDA L5 :
    [L5 EXCEPT !.view.slice_key = SliceKey(L4)])))

\* Layer._slice_dims: the viewer moves the slice position or reorders the
\* dimensions; the layer re-slices and re-evaluates whether it is editable
SlicePoint(L, point, order) ==
    Then(SetViewSlice([L EXCEPT !.view.point = point, !.view.order = order]),
         SetEditable)

\* Layer._slice_dims: the viewer changes the number of displayed dimensions;
\* the layer re-slices and then re-evaluates whether it is editable
SliceDims(L, ndisplay) ==
    Then(SetViewSlice([L EXCEPT !.ndisplay = ndisplay]), SetEditable)

\* ------------------------------------------------------------ mouse handlers
\* add_path_polygon: the first click starts a path of two vertices (the
\* clicked point and the in-progress point that follows the cursor), every
\* later click appends a vertex and, in ADD_POLYGON, makes the shape a polygon
AddPathPolygon(L) ==
    IF ~L.is_creating
    THEN Then(Add(L, <<2>>, Scalar("path"), NoArg, NoArg, NoArg, NoArg), LAMBDA L1 :
         IF L1.exc # "" THEN L1
         ELSE LET last == Len(L1.shapes) - 1 IN
              Then(SelectedDataSet(L1, {last}), LAMBDA L2 :
              IF L2.exc # "" THEN L2
              ELSE [L2 EXCEPT !.value = <<last, 1>>, !.moving_value = <<last, 1>>,
                              !.is_creating = TRUE]))
    ELSE LET index == L.moving_value[1] IN
         IF index = None THEN Raise(L, "TypeError")
         ELSE IF index >= Len(L.shapes) THEN Raise(L, "IndexError")
         ELSE LET n == L.shapes[index + 1].n + 1 IN
              Then(DataViewEdit([L EXCEPT !.value = <<index, n - 1>>,
                                          !.moving_value = <<index, n - 1>>],
                                index, n,
                                IF L.mode = "ADD_POLYGON" THEN "polygon" ELSE ""),
                   LAMBDA L2 :
              IF L2.exc # "" THEN L2
              ELSE [L2 EXCEPT !.selected_box = interaction_box(L2, L2.selected_data)])

\* select, press on shape `shape` and drag: the shape becomes the selection
\* and is being moved
SelectDragShape(L, shape) ==
    Then(SelectedDataSet([L EXCEPT !.value = <<shape, None>>,
                                   !.moving_value = <<shape, None>>], {shape}),
         LAMBDA L1 :
    IF L1.exc # "" THEN L1
    ELSE [L1 EXCEPT !.is_moving = TRUE, !.drag_start = "position"])

\* select, press on a handle of the selection box and drag: resize or rotate
\* about the opposite, fixed vertex
SelectDragHandle(L) ==
    [L EXCEPT !.is_moving = TRUE, !.drag_start = "position",
              !.fixed_vertex = "vertex"]

\* select, press on empty canvas and drag: a rubber-band box
SelectDragBox(L) ==
    Then(SelectedDataSet(L, {}), LAMBDA L1 :
         [L1 EXCEPT !.is_selecting = TRUE, !.drag_start = "position",
                    !.drag_box = "box"])

\* select, release: commits a rubber-band selection and ends the drag
SelectRelease(L, in_box) ==
    Then(IF L.is_selecting
         THEN Then(SelectedDataSet(L, in_box),
                   LAMBDA selected : [selected EXCEPT !.is_selecting = FALSE])
         ELSE L, LAMBDA L1 :
    IF L1.exc # "" THEN L1
    ELSE [L1 EXCEPT !.is_moving = FALSE, !.drag_start = "None",
                    !.drag_box = "None", !.fixed_vertex = "None",
                    !.moving_value = <<None, None>>])

\* ===================================================================== state
VARIABLES
    shapes,                 \* _data_view.shapes: <<[kind, n, z, w]>>
    edge_color,             \* _data_view._edge_color, one row per shape
    face_color,             \* _data_view._face_color, one row per shape
    properties,             \* _properties: name -> one value per shape
    current_properties,     \* _current_properties: name -> value
    current_edge_color,     \* _current_edge_color
    current_face_color,     \* _current_face_color
    current_edge_width,     \* _current_edge_width
    color_mode,             \* _edge_color_mode, _face_color_mode
    color_property,         \* _edge_color_property, _face_color_property
    color_cycle,            \* the colours of _edge_color_cycle, _face_color_cycle
    color_cycle_pos,        \* how far each colour cycle has been advanced
    color_cycle_map,        \* edge_color_cycle_map, face_color_cycle_map
    contrast_limits,        \* _edge_contrast_limits, _face_contrast_limits
    warnings,               \* the warnings the last call emitted
    steps,                  \* what the last call wrote and recomputed, in order
    selected_data,          \* _selected_data, a set of 0-based indices
    selected_box,           \* _selected_box
    mode,                   \* _mode
    editable,               \* Layer.editable
    ndisplay,               \* _ndisplay
    ndisplay_stored,        \* _ndisplay_stored
    cursor,                 \* Layer.cursor
    interactive,            \* Layer.interactive
    help,                   \* Layer.help
    mouse_drag_callbacks,   \* the list of registered drag callbacks
    mouse_move_callbacks,   \* the list of registered move callbacks
    is_moving,              \* _is_moving
    is_selecting,           \* _is_selecting
    is_creating,            \* _is_creating
    drag_start,             \* _drag_start
    drag_box,               \* _drag_box
    fixed_vertex,           \* _fixed_vertex
    value,                  \* _value
    moving_value,           \* _moving_value
    allow_thumbnail_update, \* _allow_thumbnail_update
    clipboard,              \* _clipboard
    exc,                    \* exception the last call raised, "" if it returned
    op,                     \* the last call: <<name, argument>>
    scopes,                 \* caller-level block_thumbnail_update scopes open
    qt,                     \* the Qt application and the last call of run
    view                    \* dimension order and slice position, as given and as stored

vars == <<shapes, edge_color, face_color, properties, current_properties,
          current_edge_color, current_face_color, current_edge_width, color_mode, color_property,
          color_cycle, color_cycle_pos, color_cycle_map, contrast_limits, warnings, steps,
          selected_data, selected_box,
          mode, editable, ndisplay, ndisplay_stored, cursor, interactive, help,
          mouse_drag_callbacks, mouse_move_callbacks, is_moving, is_selecting,
          is_creating, drag_start, drag_box, fixed_vertex, value, moving_value,
          allow_thumbnail_update, clipboard, exc, op, scopes, qt, view>>

\* the layer as the record the method operators work on, at the start of a call
Layer ==
    [shapes |-> shapes, edge_color |-> edge_color, face_color |-> face_color,
     properties |-> properties, current_properties |-> current_properties,
     current_edge_color |-> current_edge_color,
     current_face_color |-> current_face_color,
     current_edge_width |-> current_edge_width, color_mode |-> color_mode,
     color_property |-> color_property, color_cycle |-> color_cycle,
     color_cycle_pos |-> color_cycle_pos, color_cycle_map |-> color_cycle_map,
     contrast_limits |-> contrast_limits, warnings |-> {}, steps |-> <<>>,
     selected_data |-> selected_data, selected_box |-> selected_box,
     mode |-> mode, editable |-> editable, ndisplay |-> ndisplay,
     ndisplay_stored |-> ndisplay_stored, cursor |-> cursor,
     interactive |-> interactive, help |-> help,
     mouse_drag_callbacks |-> mouse_drag_callbacks,
     mouse_move_callbacks |-> mouse_move_callbacks,
     is_moving |-> is_moving, is_selecting |-> is_selecting,
     is_creating |-> is_creating, drag_start |-> drag_start,
     drag_box |-> drag_box, fixed_vertex |-> fixed_vertex, value |-> value,
     moving_value |-> moving_value,
     allow_thumbnail_update |-> allow_thumbnail_update,
     clipboard |-> clipboard, view |-> view, exc |-> ""]

\* the fields of the layer after a call
Assign(L, name, arg) ==
    /\ shapes' = L.shapes
    /\ edge_color' = L.edge_color
    /\ face_color' = L.face_color
    /\ properties' = L.properties
    /\ current_properties' = L.current_properties
    /\ current_edge_color' = L.current_edge_color
    /\ current_face_color' = L.current_face_color
    /\ current_edge_width' = L.current_edge_width
    /\ color_mode' = L.color_mode
    /\ color_property' = L.color_property
    /\ color_cycle' = L.color_cycle
    /\ color_cycle_pos' = L.color_cycle_pos
    /\ color_cycle_map' = L.color_cycle_map
    /\ contrast_limits' = L.contrast_limits
    /\ warnings' = L.warnings
    /\ steps' = L.steps
    /\ selected_data' = L.selected_data
    /\ selected_box' = L.selected_box
    /\ mode' = L.mode
    /\ editable' = L.editable
    /\ ndisplay' = L.ndisplay
    /\ ndisplay_stored' = L.ndisplay_stored
    /\ cursor' = L.cursor
    /\ interactive' = L.interactive
    /\ help' = L.help
    /\ mouse_drag_callbacks' = L.mouse_drag_callbacks
    /\ mouse_move_callbacks' = L.mouse_move_callbacks
    /\ is_moving' = L.is_moving
    /\ is_selecting' = L.is_selecting
    /\ is_creating' = L.is_creating
    /\ drag_start' = L.drag_start
    /\ drag_box' = L.drag_box
    /\ fixed_vertex' = L.fixed_vertex
    /\ value' = L.value
    /\ moving_value' = L.moving_value
    /\ allow_thumbnail_update' = L.allow_thumbnail_update
    /\ clipboard' = L.clipboard
    /\ view' = L.view
    /\ exc' = L.exc
    /\ op' = <<name, arg>>
    /\ scopes' = scopes

\* the layer after a call: the call is evaluated once, then assigned
Commit(after, name, arg) == \E L \in {after} : Assign(L, name, arg) /\ qt' = qt

\* --------------------------------------------------------------------- Init
\* the process before any Qt application exists: QApplication.instance() is
\* None, IPython's Qt event loop is not active, no event loop runs.  force,
\* max_loop_level and entered describe the last call of run: its arguments
\* and how many times it entered QApplication.exec_
\* no QtStateButton yet; `target` is the value of the mirrored attribute of
\* the target object, `setattr` counts the writes of it during the last call
NoButton ==
    [name |-> "", checked |-> FALSE, target |-> "", onstate |-> "True",
     offstate |-> "False", setattr |-> 0]

QtStart ==
    [app |-> FALSE, widgets |-> FALSE, ipython |-> FALSE, loop_level |-> 0,
     force |-> FALSE, max_loop_level |-> 1, entered |-> 0,
     button |-> NoButton]

\* property names a layer is constructed with
PropertyNames == {"p"}

\* Shapes.__init__ with no data and the property choices of `keys` as
\* properties: an empty 2D layer in PAN_ZOOM
Construct(keys) ==
    /\ shapes = <<>>
    /\ edge_color = <<>>
    /\ face_color = <<>>
    /\ properties = [k \in keys |-> <<>>]
    /\ current_properties = [k \in keys |-> PropertyValues(k)[1]]
    /\ current_edge_color = "black"
    /\ current_face_color = "white"
    /\ current_edge_width = 1
    /\ color_mode = [a \in Attributes |-> "DIRECT"]
    /\ color_property = [a \in Attributes |-> ""]
    /\ color_cycle = [a \in Attributes |-> DEFAULT_COLOR_CYCLE]
    /\ color_cycle_pos = [a \in Attributes |-> 0]
    /\ color_cycle_map = [a \in Attributes |-> EmptyMap]
    /\ contrast_limits = [a \in Attributes |-> NoLimits]
    /\ warnings = {}
    /\ steps = <<>>
    /\ qt = QtStart
    /\ view = [order |-> <<0, 1, 2>>, order_stored |-> <<0, 1, 2>>,
               point |-> <<0, 0>>, slice_key |-> <<0>>]
    /\ selected_data = {}
    /\ selected_box = NoBox
    /\ mode = "PAN_ZOOM"
    /\ editable = TRUE
    /\ ndisplay = 2
    /\ ndisplay_stored = 2
    /\ cursor = "standard"
    /\ interactive = TRUE
    /\ help = "enter a selection mode to edit shape properties"
    /\ mouse_drag_callbacks = <<>>
    /\ mouse_move_callbacks = <<>>
    /\ is_moving = FALSE
    /\ is_selecting = FALSE
    /\ is_creating = FALSE
    /\ drag_start = "None"
    /\ drag_box = "None"
    /\ fixed_vertex = "None"
    /\ value = <<None, None>>
    /\ moving_value = <<None, None>>
    /\ allow_thumbnail_update = TRUE
    /\ clipboard = EmptyClipboard
    /\ exc = ""
    /\ op = <<"__init__", "">>
    /\ scopes = 0

\* Shapes(properties={'p': ['a', 'b']})
Init == Construct(PropertyNames)

\* the properties a layer whose colours are under study is constructed with
PropertyLayouts == {{}, {"p"}, {"p", "q"}, {"n"}}

\* Shapes(properties=...) over the property layouts
InitColor == \E keys \in PropertyLayouts : Construct(keys)

\* ------------------------------------------------------------------- inputs
\* vertex counts of the point arrays handed to add and to the data setter
DataVerts == {2, 4}

\* batches handed to add
AddData == {<<>>, <<4>>, <<4, 2>>}

\* shape_type arguments of add
AddTypes == {"rectangle", "polygon"}

\* z_index arguments of add
ZInputs == {None, 0, 1}

\* the z_index argument of add as the call is recorded: "" when omitted
ZIndexArg(z) == IF z = None THEN "" ELSE <<"0", "1", "2", "3">>[z + 1]

\* edge_color arguments of add (None: omitted)
EdgeColorInputs == {"None", "red"}

\* lists of point arrays assigned to data
DataInputs == UNION {[1..n -> DataVerts] : n \in 0..MaxShapes}

\* modes requested of a layer whose collection is under study
DataModes == {"PAN_ZOOM", "ADD_PATH", "ADD_POLYGON"}

\* edge_width arguments of add (None: omitted)
EdgeWidthInputs == {None, 2}

\* colour cycles assigned to a channel
ColorCycles == {<<"green", "magenta">>}

\* the keys of the dicts assigned to properties: the keys there are, or
\* some of them
PropertyKeySets == SUBSET DOMAIN properties

\* the dicts assigned to properties, with arrays of the given lengths
PropertyInputs(key_sets, lengths) ==
    UNION {{f \in [keys -> UNION {[1..len -> {PropertyValues(k)[j] : j \in 1..2}]
                                      : k \in keys}] :
               \A k \in keys : \A j \in 1..len :
                   \E c \in 1..2 : f[k][j] = PropertyValues(k)[c]}
             : keys \in key_sets, len \in lengths}

\* the name of the colour mode setter of a channel
ColorModeOp(attribute) ==
    IF attribute = "edge" THEN "edge_color_mode" ELSE "face_color_mode"

\* the face colour mode requested of a layer under study of its selection:
\* CYCLE, of the layers with the one property p
FaceCycleRequests ==
    IF DOMAIN properties = {"p"} THEN {<<"face", "CYCLE">>} ELSE {}

Indices == 0..(Len(shapes) - 1)

\* the collection stays within the bounds of the model
WithinBounds(L, cap) ==
    /\ Len(L.shapes) <= cap
    /\ Len(L.edge_color) <= cap + MaxStale
    /\ Len(L.face_color) <= cap + MaxStale
    /\ \A k \in DOMAIN L.properties : Len(L.properties[k]) <= cap + MaxStale
    /\ \A j \in 1..Len(L.shapes) :
          /\ -MaxZ <= L.shapes[j].z /\ L.shapes[j].z <= MaxZ
          /\ L.shapes[j].n <= MaxVerts
          /\ \A d \in 1..2 :
                -MaxPlane <= L.shapes[j].p[d] /\ L.shapes[j].p[d] <= 2 * MaxPlane

\* ------------------------------------------------------------------ actions
\* layer.add(data, shape_type=st, edge_color=ec, z_index=z)
AddAction(z_indices, edge_colors) ==
    \E data \in AddData, st \in AddTypes, z \in z_indices, ec \in edge_colors :
        \E L \in {Add(Layer, data, Scalar(st), NoArg,
                      IF ec = "None" THEN NoArg ELSE List(<<ec>>), NoArg, Scalar(z))} :
           WithinBounds(L, MaxShapes) /\ Commit(L, "add", ZIndexArg(z))

\* layer.add(data, shape_type='rectangle', edge_width=ew, edge_color=ec)
AddStyledAction(edge_widths, edge_colors, cap) ==
    \E ew \in edge_widths, ec \in edge_colors :
        \E L \in {Add(Layer, <<4>>, Scalar("rectangle"), Scalar(ew),
                      IF ec = "None" THEN NoArg ELSE List(<<ec>>), NoArg, NoArg)} :
           WithinBounds(L, cap) /\ Commit(L, "add", "")

\* layer.properties = props; the call is recorded with whether some array
\* of props differs in length from the number of shapes
PropertiesAction(key_sets, lengths) ==
    \E props \in PropertyInputs(key_sets, lengths) :
        Commit(PropertiesSet(Layer, props), "properties",
               IF \E k \in DOMAIN props : Len(props[k]) # Len(shapes)
               THEN "mismatch" ELSE "match")

\* layer.edge_color_mode = m, layer.face_color_mode = m
ColorModeAction(requests) ==
    \E r \in requests :
        \E L \in {SetColorMode(Layer, r[2], r[1])} :
           WithinBounds(L, MaxShapes) /\ Commit(L, ColorModeOp(r[1]), r[2])

\* layer.refresh_colors(update_color_mapping=update)
RefreshColorsAction ==
    \E update \in BOOLEAN :
        \E L \in {RefreshColors(Layer, update)} :
           WithinBounds(L, MaxShapes)
           /\ Commit(L, "refresh_colors", IF update THEN "True" ELSE "False")

\* layer.edge_color_cycle = cycle, layer.face_color_cycle = cycle
ColorCycleAction(attributes) ==
    \E attribute \in attributes, cycle \in ColorCycles :
        \E L \in {SetColorCycle(Layer, cycle, attribute)} :
           WithinBounds(L, MaxShapes) /\ Commit(L, "color_cycle", attribute)

\* layer.data = data
DataAction ==
    \E data \in DataInputs :
        \E L \in {DataSet(Layer, data)} :
           WithinBounds(L, MaxShapes)
           /\ Commit(L, "data", <<"0", "1", "2", "3">>[Len(data) + 1])

\* layer.selected_data = sel
SelectedDataAction ==
    \E sel \in SUBSET Indices : Commit(SelectedDataSet(Layer, sel), "selected_data", "")

\* layer.mode = m
ModeAction(requests) ==
    \E m \in requests : Commit(ModeSet(Layer, m), "mode", m)

\* layer.editable = b
EditableAction ==
    \E b \in BOOLEAN : Commit(EditableSet(Layer, b), "editable", "")

\* the viewer switches between 2D and 3D display
SliceDimsAction ==
    \E nd \in {2, 3} : Commit(SliceDims(Layer, nd), "slice_dims", "")

\* Escape key: layer._finish_drawing()
FinishDrawingAction ==
    Commit(FinishDrawing(Layer), "finish_drawing", "")

\* Backspace key: layer.remove_selected()
RemoveSelectedAction ==
    Commit(RemoveSelected(Layer), "remove_selected", "")

\* layer.move_to_front()
MoveToFrontAction ==
    \E L \in {MoveToFront(Layer)} :
       WithinBounds(L, MaxShapes) /\ Commit(L, "move_to_front", "")

\* layer.move_to_back()
MoveToBackAction ==
    \E L \in {MoveToBack(Layer)} :
       WithinBounds(L, MaxShapes) /\ Commit(L, "move_to_back", "")

\* layer._rotate_box(180, c), layer._scale_box(-1, c),
\* layer._transform_box([[1, 0], [0, -1]], c), with c the centre of the box
BoxAction ==
    \/ Commit(RotateBox(Layer), "_rotate_box", "")
    \/ Commit(ScaleBox(Layer), "_scale_box", "")
    \/ Commit(TransformBox(Layer), "_transform_box", "")

\* slice positions on a sliced dimension
Planes == 0..MaxPlane

\* layer.add(data) with a rectangle whose vertices lie at coordinate c on
\* dimensions 0 and 1; add stores the vertices as given
AddAtAction(cap) ==
    \E c \in Planes \X Planes :
        \E L \in {Add(Layer, <<4>>, Scalar("rectangle"), NoArg, NoArg, NoArg, NoArg)} :
            /\ L.exc = ""
            /\ WithinBounds(L, cap)
            /\ Commit([L EXCEPT !.shapes[Len(L.shapes)].p = c], "add", "")

\* the viewer's slider of the dimension that is not displayed moves, or the
\* first two dimensions are transposed
SlicePointAction ==
    \/ \E d \in {DimsNotDisplayed(Layer)[i] + 1 : i \in 1..Len(DimsNotDisplayed(Layer))},
          i \in Planes :
          Commit(SlicePoint(Layer, [view.point EXCEPT ![d] = i], view.order),
                 "slice_dims", "point")
    \/ \E order \in {<<0, 1, 2>>, <<1, 0, 2>>} :
          Commit(SlicePoint(Layer, view.point, order), "slice_dims", "order")

\* layer.current_edge_width = w, layer.current_edge_color = c and
\* layer.current_face_color = c, by a caller outside ("") or inside
\* ("blocked") a block_update_properties scope
CurrentStyleAction ==
    \E update_properties \in BOOLEAN :
        \/ \E edge_width \in {1, 2} :
              Commit(CurrentEdgeWidthSet(Layer, edge_width, update_properties),
                     "current_edge_width",
                     IF update_properties THEN "" ELSE "blocked")
        \/ \E attribute \in Attributes, color \in {"red", "green"} :
              Commit(CurrentColorSet(Layer, attribute, color, update_properties),
                     IF attribute = "edge" THEN "current_edge_color"
                     ELSE "current_face_color",
                     IF update_properties THEN "" ELSE "blocked")

\* Control-C: layer._copy_data()
CopyAction ==
    Commit(CopyData(Layer), "copy", "")

\* Control-V: layer._paste_data()
PasteAction ==
    \E L \in {PasteData(Layer)} :
       WithinBounds(L, MaxShapes) /\ Commit(L, "paste", "")

\* a click while add_path_polygon is registered
ClickAction(cap) ==
    /\ Has(mouse_drag_callbacks, "add_path_polygon")
    /\ \E L \in {AddPathPolygon(Layer)} :
          WithinBounds(L, cap) /\ Commit(L, "add_path_polygon", "")

\* a drag while select is registered
SelectDragAction ==
    /\ Has(mouse_drag_callbacks, "select")
    /\ ~is_moving /\ ~is_selecting
    /\ \/ \E i \in Indices : Commit(SelectDragShape(Layer, i), "select", "shape")
       \/ selected_data # {} /\ Commit(SelectDragHandle(Layer), "select", "handle")
       \/ Commit(SelectDragBox(Layer), "select", "box")

\* the release that ends a drag of select
SelectReleaseAction ==
    /\ Has(mouse_drag_callbacks, "select")
    /\ is_moving \/ is_selecting
    /\ \E in_box \in SUBSET Indices :
          Commit(SelectRelease(Layer, in_box), "select", "release")

\* a caller enters `with layer.block_thumbnail_update():`
ScopeEnterAction ==
    /\ scopes < MaxScopes
    /\ scopes' = scopes + 1
    /\ allow_thumbnail_update' = BlockThumbnailEnter(Layer).allow_thumbnail_update
    /\ exc' = ""
    /\ op' = <<"block_thumbnail_update", "enter">>
    /\ UNCHANGED <<shapes, edge_color, face_color, properties, current_properties,
          current_edge_color, current_face_color, current_edge_width, color_mode, color_property,
          color_cycle, color_cycle_pos, color_cycle_map, contrast_limits, warnings, steps,
          selected_data, selected_box,
          mode, editable, ndisplay, ndisplay_stored, cursor, interactive, help,
          mouse_drag_callbacks, mouse_move_callbacks, is_moving, is_selecting,
          is_creating, drag_start, drag_box, fixed_vertex, value, moving_value,
          clipboard, qt, view>>

\* the body of the caller's scope ends: it returns, or it raises
ScopeExitAction ==
    /\ scopes > 0
    /\ scopes' = scopes - 1
    /\ \E raised \in {"", "Exception"} :
          /\ allow_thumbnail_update' =
                 BlockThumbnailExit(Raise(Layer, raised)).allow_thumbnail_update
          /\ exc' = raised
          /\ op' = <<"block_thumbnail_update", IF raised = "" THEN "exit" ELSE "raise">>
    /\ UNCHANGED <<shapes, edge_color, face_color, properties, current_properties,
          current_edge_color, current_face_color, current_edge_width, color_mode, color_property,
          color_cycle, color_cycle_pos, color_cycle_map, contrast_limits, warnings, steps,
          selected_data, selected_box,
          mode, editable, ndisplay, ndisplay_stored, cursor, interactive, help,
          mouse_drag_callbacks, mouse_move_callbacks, is_moving, is_selecting,
          is_creating, drag_start, drag_box, fixed_vertex, value, moving_value,
          clipboard, qt, view>>

\* ----------------------------------------------------- the Qt event loop
\* app.thread().loopLevel() >= max_loop_level
LoopLevelReached_Never(Q, max_loop_level) == FALSE

LoopLevelReached(Q, max_loop_level) == Q.loop_level >= max_loop_level

\* run(force=..., max_loop_level=...): the application after the call, the
\* exception it raised and the warning it gave.  Entering exec_ raises the
\* thread's loop level; the call then blocks until exit() is called
Run(Q, force, max_loop_level) ==
    LET call == [Q EXCEPT !.force = force, !.max_loop_level = max_loop_level,
                          !.entered = 0]
    IN  IF Q.ipython
        THEN [qt |-> call, exc |-> "", warnings |-> {}]
        ELSE IF ~Q.app
        THEN [qt |-> call, exc |-> "RuntimeError", warnings |-> {}]
        ELSE IF ~Q.widgets /\ ~force
        THEN [qt |-> call, exc |-> "",
              warnings |-> {"Refusing to run a QApplication with no topLevelWidgets"}]
        ELSE IF LoopLevelReached(Q, max_loop_level)
        THEN [qt |-> call, exc |-> "",
              warnings |-> {"A QApplication is already running"}]
        ELSE [qt |-> [call EXCEPT !.entered = @ + 1, !.loop_level = @ + 1],
              exc |-> "", warnings |-> {}]

RunAction ==
    \E force \in BOOLEAN, max_loop_level \in 1..MaxLoopLevel :
        \E R \in {Run(qt, force, max_loop_level)} :
            /\ R.qt.loop_level <= MaxLoopLevel
            /\ qt' = R.qt
            /\ Assign([Layer EXCEPT !.exc = R.exc, !.warnings = R.warnings],
                      "run", "")

\* what happens to the application between calls of run: get_app() creates
\* it, a top-level widget is shown or the last one is closed, %gui qt starts
\* or stops IPython's Qt event loop, exit() ends the innermost event loop
QtEnvironmentAction ==
    \/ /\ ~qt.app
       /\ qt' = [qt EXCEPT !.app = TRUE]
       /\ Assign(Layer, "get_app", "")
    \/ /\ qt.app
       /\ qt' = [qt EXCEPT !.widgets = ~@]
       /\ Assign(Layer, IF qt.widgets THEN "close" ELSE "show", "")
    \/ /\ qt' = [qt EXCEPT !.ipython = ~@]
       /\ Assign(Layer, "gui", IF qt.ipython THEN "" ELSE "qt")
    \/ /\ qt.loop_level > 0
       /\ qt' = [qt EXCEPT !.loop_level = @ - 1]
       /\ Assign(Layer, "exit", "")

\* -------------------------------------------------------- the state buttons
\* QtStateButton._on_change with the toggle left out
OnChange_NoToggle(B) == B

\* QtStateButton._on_change: toggle() when the checked state differs from
\* (attribute == onstate); toggle() emits toggled, never clicked
OnChange(B) ==
    IF B.checked # (B.target = B.onstate)
    THEN [B EXCEPT !.checked = ~@]
    ELSE B

\* setattr(target, attribute, newstate) with the change event delivered to the
\* connected _on_change
SetAttr(B, newstate) == OnChange([B EXCEPT !.target = newstate, !.setattr = @ + 1])

\* QtStateButton.change, the slot of clicked
Change(B) == SetAttr(B, IF B.checked THEN B.onstate ELSE B.offstate)

\* a click on the checkable button: Qt toggles the checked state, then emits
\* clicked
Click(B) == Change([B EXCEPT !.checked = ~@])

\* QtStateButton.__init__ on a target whose attribute is `target`: a new
\* checkable button is unchecked, then _on_change() is called
QtStateButton(button_name, target, onstate, offstate) ==
    OnChange([name |-> button_name, checked |-> FALSE, target |-> target,
              onstate |-> onstate, offstate |-> offstate, setattr |-> 0])

\* the two state buttons of QtViewerButtons: gridViewButton on grid.enabled
\* with the default states, ndisplayButton on dims.ndisplay with 2 and 3
StateButtons ==
    {[name |-> "grid_view_button", onstate |-> "True", offstate |-> "False"],
     [name |-> "ndisplay_button", onstate |-> "2", offstate |-> "3"]}

\* a state button is built, clicked, its attribute is set from elsewhere, an
\* event of its emitter arrives with the attribute unchanged, or the viewer
\* holding it is closed
StateButtonAction ==
    \/ /\ qt.app
       /\ qt.button = NoButton
       /\ \E b \in StateButtons :
             \E target \in {b.onstate, b.offstate} :
                 /\ qt' = [qt EXCEPT !.button = QtStateButton(b.name, target,
                                                             b.onstate, b.offstate)]
                 /\ Assign(Layer, "QtStateButton", b.name)
    \/ /\ qt.button # NoButton
       /\ qt' = [qt EXCEPT !.button = Click([@ EXCEPT !.setattr = 0])]
       /\ Assign(Layer, "click", "")
    \/ /\ qt.button # NoButton
       /\ \E newstate \in {qt.button.onstate, qt.button.offstate} :
             /\ qt' = [qt EXCEPT !.button = SetAttr([@ EXCEPT !.setattr = 0],
                                                   newstate)]
             /\ Assign(Layer, "setattr", newstate)
    \/ /\ qt.button # NoButton
       /\ qt' = [qt EXCEPT !.button = OnChange([@ EXCEPT !.setattr = 0])]
       /\ Assign(Layer, "event", "")
    \/ /\ qt.button # NoButton
       /\ qt' = [qt EXCEPT !.button = NoButton]
       /\ Assign(Layer, "close_viewer", "")

\* ----------------------------------------------------------- specifications
\* The collection under its API, drawing and finalisation.
Next ==
    \/ AddAction({None}, {"None"})
    \/ DataAction
    \/ SelectedDataAction
    \/ ModeAction(DataModes)
    \/ FinishDrawingAction
    \/ RemoveSelectedAction
    \/ ClickAction(MaxShapes)

Spec == Init /\ [][Next]_vars

\* The collection and the clipboard.
NextClipboard ==
    \/ AddAction(ZInputs, EdgeColorInputs)
    \/ SelectedDataAction
    \/ RemoveSelectedAction
    \/ CopyAction
    \/ PasteAction

ClipboardSpec == Init /\ [][NextClipboard]_vars

\* The mode machine: every mode, editability, drawing and selecting by mouse.
NextMode ==
    \/ ModeAction(Modes)
    \/ EditableAction
    \/ SliceDimsAction
    \/ FinishDrawingAction
    \/ RemoveSelectedAction
    \/ ClickAction(MaxDrawn)
    \/ SelectDragAction
    \/ SelectReleaseAction

ModeSpec == Init /\ [][NextMode]_vars

\* One colour channel: adds, properties, colour modes, cycles and refreshes.
NextEdgeColor ==
    \/ AddStyledAction({None}, {"None"}, MaxShapes)
    \/ PropertiesAction(PropertyKeySets, {Len(shapes), Len(shapes) + 1})
    \/ ColorModeAction({"edge"} \X ColorModes)
    \/ RefreshColorsAction
    \/ ColorCycleAction({"edge"})

ColorSpec == InitColor /\ [][NextEdgeColor]_vars

\* Both colour channels switched to the mapped modes.
NextChannels ==
    \/ AddStyledAction({None}, {"None"}, MaxDrawn)
    \/ PropertiesAction(PropertyKeySets, {Len(shapes)})
    \/ ColorModeAction(Attributes \X {"CYCLE", "COLORMAP"})

ChannelsSpec == InitColor /\ [][NextChannels]_vars

\* The selection and the styles it makes current.
NextSelection ==
    \/ AddStyledAction(EdgeWidthInputs, EdgeColorInputs, MaxShapes)
    \/ PropertiesAction({DOMAIN properties}, {Len(shapes)})
    \/ ColorModeAction(FaceCycleRequests)
    \/ SelectedDataAction
    \/ RemoveSelectedAction

SelectionSpec == InitColor /\ [][NextSelection]_vars

\* Batches added with and without a z-index, property values, the selection,
\* the z-order of the selected shapes and the selected box as a drag moves it.
NextArrange ==
    \/ AddAction(ZInputs, {"None"})
    \/ PropertiesAction({DOMAIN properties}, {Len(shapes)})
    \/ SelectedDataAction
    \/ MoveToFrontAction
    \/ MoveToBackAction
    \/ BoxAction

ArrangeSpec == Init /\ [][NextArrange]_vars

\* The sliced view: shapes on several planes, selection, copy and paste while
\* the viewer moves the slice, reorders the dimensions and switches to 3D.
NextSlice ==
    \/ AddAtAction(MaxDrawn)
    \/ SelectedDataAction
    \/ CopyAction
    \/ PasteAction
    \/ SlicePointAction
    \/ SliceDimsAction

SliceSpec == Init /\ [][NextSlice]_vars

\* The style of the selected shapes: adds, selections and the current values.
NextStyle ==
    \/ AddStyledAction({None}, {"None"}, MaxShapes)
    \/ SelectedDataAction
    \/ CurrentStyleAction

StyleSpec == Init /\ [][NextStyle]_vars

\* The Qt event loop under run and what the application does between calls.
NextRun ==
    \/ RunAction
    \/ QtEnvironmentAction
    \/ StateButtonAction

RunSpec == Init /\ [][NextRun]_vars

\* The suppression scope around drawing and mode changes.
NextThumbnail ==
    \/ ScopeEnterAction
    \/ ScopeExitAction
    \/ ModeAction(DataModes)
    \/ FinishDrawingAction
    \/ RemoveSelectedAction
    \/ ClickAction(MaxDrawn)

ThumbnailSpec == Init /\ [][NextThumbnail]_vars

\* ====================================================================== claims
\* the calls that change the number of shapes
CountChanging == {"add", "data", "paste", "remove_selected", "finish_drawing"}

\* C1: after every operation that changes the number of shapes (add, data
\* assignment, paste, remove_selected, _finish_drawing discarding a shape) the
\* edge-colour array, the face-colour array and the shape list have the same
\* length.
C1_ColorLengthsAgree ==
    (op[1] \in CountChanging /\ exc = "") =>
        (Len(edge_color) = Len(shapes) /\ Len(face_color) = Len(shapes))

\* C2: after every add, data assignment, paste, remove_selected and
\* _finish_drawing every property array has exactly as many entries as there
\* are shapes, also when data is assigned zero shapes and when finalisation
\* discards the shape being drawn.
C2_PropertyLengthsAgree ==
    (op[1] \in CountChanging /\ exc = "") =>
        \A k \in DOMAIN properties : Len(properties[k]) = Len(shapes)

\* C3: while the layer is not editable every mode assignment leaves the mode
\* PAN_ZOOM whatever was requested, and _set_editable in 3D display makes the
\* layer non-editable and puts it in PAN_ZOOM whatever mode it was in.
C3_NonEditableIsPanZoom ==
    [][/\ (op'[1] = "mode" /\ ~editable) => mode' = "PAN_ZOOM"
       /\ (op'[1] = "slice_dims" /\ ndisplay' = 3) =>
              (~editable' /\ mode' = "PAN_ZOOM")]_vars

\* C3 witness: in 3D display the layer is not editable and a request for
\* ADD_PATH has left it in PAN_ZOOM.
C3_Witness ==
    /\ op = <<"mode", "ADD_PATH">>
    /\ ndisplay = 3
    /\ ~editable
    /\ mode = "PAN_ZOOM"

\* the transient drawing state is as _finish_drawing leaves it
DrawStateCleared ==
    /\ ~is_moving
    /\ ~is_selecting
    /\ ~is_creating
    /\ selected_data = {}
    /\ selected_box = NoBox
    /\ drag_start = "None"
    /\ drag_box = "None"
    /\ fixed_vertex = "None"
    /\ value = <<None, None>>
    /\ moving_value = <<None, None>>

\* a step leaves the selection, the drawing state and the shapes as they were
DrawStateKept ==
    UNCHANGED <<selected_data, selected_box, is_moving, is_selecting, is_creating,
                drag_start, drag_box, fixed_vertex, value, moving_value, shapes>>

\* C4 as stated: a mode change finalises in-progress drawing only when it
\* leaves the group {SELECT, DIRECT, VERTEX_INSERT, VERTEX_REMOVE} for a mode
\* outside it; every other mode change does not finalise.
C4_FinalizesOnlyLeavingGroup ==
    [][(mode' # mode /\ ~(mode \in draw_modes /\ mode' \notin draw_modes)) =>
           DrawStateKept]_vars

\* C4 amended: a mode change skips finalisation exactly when the old and the
\* new mode are both in the group; every other mode change (into the group,
\* out of it, or between two modes outside it) finalises, clearing the
\* selection and the drag and creation state.
C4_FinalizesUnlessWithinGroup ==
    [][(mode' # mode) =>
           IF mode \in draw_modes /\ mode' \in draw_modes
           THEN DrawStateKept
           ELSE exc' = "" => DrawStateCleared']_vars

\* C4 witness: a change into DIRECT during a drag in SELECT has kept the
\* selection and the drag.
C4_Witness ==
    /\ op = <<"mode", "DIRECT">>
    /\ mode = "DIRECT"
    /\ is_moving
    /\ selected_data # {}

\* the shapes after the shape at 0-based index i is finalised by the rule of
\* threshold: discarded with that many vertices or fewer, else its last
\* vertex dropped
FinalizedBy(threshold, i) ==
    IF shapes[i + 1].n <= threshold
    THEN shapes' = RemoveAt(shapes, i)
    ELSE shapes' = [shapes EXCEPT ![i + 1].n = @ - 1]

\* the mode's own vertex threshold
ThresholdOf(m) == IF m = "ADD_PATH" THEN 2 ELSE 3

\* a shape is being created and _moving_value still names it
CreatingAt(i) ==
    /\ is_creating
    /\ mode \in {"ADD_PATH", "ADD_POLYGON"}
    /\ i = moving_value[1]
    /\ i # None
    /\ i < Len(shapes)

\* C5: when the mode is changed away from ADD_PATH or ADD_POLYGON while a
\* shape is being created, the shape is finalised by the rule of its own kind
\* (discarded with too few vertices, else its last vertex dropped); it is not
\* left with the in-progress vertex attached and is not judged by the other
\* kind's threshold.
C5_ModeChangeFinalizesByOwnRule ==
    [][\A i \in 0..(MaxShapes + MaxDrawn) :
          (CreatingAt(i) /\ mode' # mode) => FinalizedBy(ThresholdOf(mode), i)]_vars

\* C6: when _finish_drawing runs while a path is being created in ADD_PATH,
\* the path is removed if it has 2 or fewer stored vertices, else exactly its
\* last vertex is dropped; in ADD_POLYGON the shape is removed if it has 3 or
\* fewer, else exactly its last vertex is dropped; a finalised path keeps at
\* least 2 vertices and a finalised polygon at least 3.
C6_FinishDrawingThresholds ==
    [][\A i \in 0..(MaxShapes + MaxDrawn) :
          (CreatingAt(i) /\ op'[1] = "finish_drawing") =>
              /\ exc' = ""
              /\ FinalizedBy(ThresholdOf(mode), i)
              /\ Len(shapes') = Len(shapes) =>
                    /\ shapes'[i + 1].kind = (IF mode = "ADD_PATH" THEN "path" ELSE "polygon")
                    /\ shapes'[i + 1].n >= ThresholdOf(mode)]_vars

\* C6 witness: Escape in ADD_POLYGON has left a finished polygon of 3 vertices.
C6_Witness ==
    /\ op[1] = "finish_drawing"
    /\ exc = ""
    /\ mode = "ADD_POLYGON"
    /\ ~is_creating
    /\ shapes # <<>>
    /\ shapes[Len(shapes)].kind = "polygon"
    /\ shapes[Len(shapes)].n = 3

C8_CallbacksMatchMode ==
    /\ mouse_drag_callbacks =
          (CASE mode \in {"SELECT", "DIRECT"} -> <<"select">>
             [] mode = "VERTEX_INSERT" -> <<"vertex_insert">>
             [] mode = "VERTEX_REMOVE" -> <<"vertex_remove">>
             [] mode = "ADD_RECTANGLE" -> <<"add_rectangle">>
             [] mode = "ADD_ELLIPSE" -> <<"add_ellipse">>
             [] mode = "ADD_LINE" -> <<"add_line">>
             [] mode \in {"ADD_PATH", "ADD_POLYGON"} -> <<"add_path_polygon">>
             [] mode = "PAN_ZOOM" -> <<>>)
    /\ mouse_move_callbacks =
          (CASE mode \in {"SELECT", "DIRECT", "VERTEX_INSERT", "VERTEX_REMOVE"} ->
                    <<"highlight">>
             [] mode \in {"ADD_PATH", "ADD_POLYGON"} -> <<"add_path_polygon_creating">>
             [] mode \in {"PAN_ZOOM", "ADD_RECTANGLE", "ADD_ELLIPSE", "ADD_LINE"} -> <<>>)

\* C8 witness: the layer has come to ADD_LINE from a mode that had registered
\* handlers of its own (a shape drawn in ADD_PATH or ADD_POLYGON exists).
C8_Witness ==
    /\ op = <<"mode", "ADD_LINE">>
    /\ mode = "ADD_LINE"
    /\ shapes # <<>>
    /\ mouse_drag_callbacks = <<"add_line">>
    /\ mouse_move_callbacks = <<>>

\* C9: after any sequence of mode assignments cursor and camera lock match the
\* mode: PAN_ZOOM standard and interactive, SELECT and DIRECT pointing and
\* not interactive, every VERTEX_* and ADD_* mode cross and not interactive.
C9_CursorMatchesMode ==
    /\ mode = "PAN_ZOOM" => (cursor = "standard" /\ interactive)
    /\ mode \in {"SELECT", "DIRECT"} => (cursor = "pointing" /\ ~interactive)
    /\ mode \in Modes \ {"PAN_ZOOM", "SELECT", "DIRECT"} =>
           (cursor = "cross" /\ ~interactive)

\* C9 witness: back in PAN_ZOOM, by a mode assignment, after drawing a shape.
C9_Witness ==
    /\ op = <<"mode", "PAN_ZOOM">>
    /\ mode = "PAN_ZOOM"
    /\ shapes # <<>>
    /\ cursor = "standard"
    /\ interactive

\* C10: the suppression scope re-enables thumbnail updates on every exit
\* path, also when its body raises: whenever no scope is active
\* _allow_thumbnail_update is True.
C10_ReenabledOutsideScope ==
    scopes = 0 => allow_thumbnail_update

\* C11: an add that fails part-way leaves the layer as it was before the
\* call: the shape list, both colour arrays and every property array.
C11_FailedAddLeavesLayer ==
    [][(op'[1] = "add" /\ exc' # "")
          => /\ shapes' = shapes
             /\ edge_color' = edge_color
             /\ face_color' = face_color
             /\ properties' = properties]_vars

\* C12: assigning properties in which some array's length differs from the
\* number of shapes fails, and the stored properties and the colour
\* properties of both channels are as before the call.
C12_MismatchedPropertiesRejected ==
    [][op' = <<"properties", "mismatch">>
          => /\ exc' = "ValueError"
             /\ properties' = properties
             /\ color_property' = color_property]_vars

\* a rejected assignment to a layer with shapes and a designated colour property
C12_Witness ==
    /\ op = <<"properties", "mismatch">>
    /\ exc = "ValueError"
    /\ Len(shapes) > 0
    /\ color_property["edge"] # ""

\* the colours of a channel
ChannelColors(attribute) == IF attribute = "edge" THEN edge_color ELSE face_color

\* a switch of channel a to CYCLE or COLORMAP while it has no colour property
AutoSelecting(a) ==
    /\ op'[1] = ColorModeOp(a)
    /\ op'[2] \in {"CYCLE", "COLORMAP"}
    /\ color_property[a] = ""

\* a failed switch of channel a left its mode, colour property and colours alone
ChannelUntouched(a) ==
    /\ color_mode'[a] = color_mode[a]
    /\ color_property'[a] = color_property[a]
    /\ ChannelColors(a)' = ChannelColors(a)

\* C13 as stated: switching a channel to CYCLE or COLORMAP with no colour
\* property designated selects the first property and warns without failing;
\* with no properties at all the call fails and leaves the channel alone.
C13_AutoSelectNeverFails ==
    [][\A a \in Attributes :
          AutoSelecting(a) =>
              IF DOMAIN properties # {}
              THEN /\ color_property'[a] = FirstKey(properties)
                   /\ "color_property was not set" \in warnings'
                   /\ exc' = ""
              ELSE exc' # "" /\ ChannelUntouched(a)]_vars

\* the refresh that ends the switch of channel a fails on the other channel:
\* it is in a mapped mode and its colour property is not a property
OtherChannelStale(a) ==
    \E b \in Attributes \ {a} :
        /\ color_mode[b] \in {"CYCLE", "COLORMAP"}
        /\ color_property[b] \notin DOMAIN properties

\* C13, amended: the first property is selected with a warning and the
\* selection itself does not fail; the call fails exactly when COLORMAP is
\* requested of a non-numeric first property (TypeError) or the refresh fails
\* on the other channel (KeyError), and the selected property stays
\* designated. With no properties the call fails and leaves the channel alone.
C13_AutoSelectThenCheck ==
    [][\A a \in Attributes :
          AutoSelecting(a) =>
              IF DOMAIN properties # {}
              THEN /\ color_property'[a] = FirstKey(properties)
                   /\ "color_property was not set" \in warnings'
                   /\ exc' = IF op'[2] = "COLORMAP"
                                /\ FirstKey(properties) \notin NumericProperties
                             THEN "TypeError"
                             ELSE IF OtherChannelStale(a) THEN "KeyError" ELSE ""
              ELSE exc' = "ValueError" /\ ChannelUntouched(a)]_vars

\* the edge channel of a layer with a shape was switched to CYCLE and took
\* the first property as its colour property
C13_Witness ==
    /\ op = <<"edge_color_mode", "CYCLE">>
    /\ exc = ""
    /\ "color_property was not set" \in warnings
    /\ color_property["edge"] = "p"
    /\ color_mode["edge"] = "CYCLE"
    /\ Len(shapes) > 0

\* C14: a switch of a channel to COLORMAP that fails because the colour
\* property is non-numeric leaves the channel's colour mode, its designated
\* colour property (also when there was none) and its colours as before.
C14_FailedColormapLeavesChannel ==
    [][\A a \in Attributes :
          (op' = <<ColorModeOp(a), "COLORMAP">> /\ exc' = "TypeError")
              => ChannelUntouched(a)]_vars

\* C15: setting the colour mode of a channel to DIRECT changes no entry of
\* the channel's colour array, so the colours of CYCLE stay when the mode is
\* switched back.
C15_DirectKeepsColors ==
    [][\A a \in Attributes :
          op' = <<ColorModeOp(a), "DIRECT">>
              => /\ exc' = ""
                 /\ color_mode'[a] = "DIRECT"
                 /\ ChannelColors(a)' = ChannelColors(a)]_vars

\* the edge channel is back in DIRECT and a shape still has a colour of the
\* cycle that is not the current edge colour
C15_Witness ==
    /\ op = <<"edge_color_mode", "DIRECT">>
    /\ color_mode["edge"] = "DIRECT"
    /\ DOMAIN color_cycle_map["edge"] # {}
    /\ \E j \in 1..Len(edge_color) :
          /\ edge_color[j] \in {"magenta", "green"}
          /\ edge_color[j] # current_edge_color

\* every entry the colour cycle map of channel a has before the call is in
\* it, unchanged, after the call
CycleMapKept(a) ==
    \A v \in DOMAIN color_cycle_map[a] :
        /\ v \in DOMAIN color_cycle_map'[a]
        /\ color_cycle_map'[a][v] = color_cycle_map[a][v]

\* after the call every shape whose value of the colour property had an entry
\* in the colour cycle map before the call is coloured with that entry
MappedShapesKept(a) ==
    \A j \in 1..Len(ChannelColors(a)') :
        LET v == properties'[color_property[a]][j]
        IN v \in DOMAIN color_cycle_map[a]
               => ChannelColors(a)'[j] = color_cycle_map[a][v]

ColorPropertyValues(a) == properties[color_property[a]]

\* C17: in CYCLE mode a refresh with update_color_mapping=True that returns,
\* called directly or by the assignment of a colour cycle, leaves a colour
\* cycle map whose keys are exactly the distinct values of the colour
\* property, and every shape has the colour of the entry of its value.
C17_RebuildMatchesProperty ==
    [][\A a \in Attributes :
          /\ color_mode[a] = "CYCLE"
          /\ exc' = ""
          /\ \/ op' = <<"refresh_colors", "True">>
             \/ op'[1] = "color_cycle" /\ color_mode[op'[2]] = "CYCLE"
          => /\ DOMAIN color_cycle_map'[a]
                   = {ColorPropertyValues(a)'[j] : j \in 1..Len(ColorPropertyValues(a)')}
             /\ Len(ChannelColors(a)') = Len(ColorPropertyValues(a)')
             /\ \A j \in 1..Len(ChannelColors(a)') :
                   ChannelColors(a)'[j] = color_cycle_map'[a][ColorPropertyValues(a)'[j]]]_vars

\* a rebuild after an earlier mapping: both shapes share one value, the map
\* has that key alone, and its colour is the second of the default cycle, so
\* the cycle had been advanced by an entry the map no longer has or has anew
C17_Witness ==
    /\ op = <<"refresh_colors", "True">>
    /\ exc = ""
    /\ color_mode["edge"] = "CYCLE"
    /\ Len(shapes) = 2 /\ Len(edge_color) = 2
    /\ color_property["edge"] \in DOMAIN properties
    /\ Cardinality(DOMAIN color_cycle_map["edge"]) = 1
    /\ color_cycle["edge"] = DEFAULT_COLOR_CYCLE
    /\ edge_color[1] = "green" /\ edge_color[2] = "green"

\* limits are the smallest and the largest value of array
IsMinMaxOf(limits, array) ==
    /\ Len(limits) = 2
    /\ \E j \in 1..Len(array) : limits[1] = array[j]
    /\ \E j \in 1..Len(array) : limits[2] = array[j]
    /\ \A j \in 1..Len(array) : limits[1] <= array[j] /\ array[j] <= limits[2]

\* C18: in COLORMAP mode with a non-empty colour property, a refresh that
\* finds the contrast limits unset stores the minimum and maximum of the
\* property; a refresh with update_color_mapping=False that finds limits
\* leaves them as they are; a refresh with update_color_mapping=True stores
\* the minimum and maximum of the property.
C18_ContrastLimitsCached ==
    [][\A a \in Attributes :
          /\ op'[1] = "refresh_colors"
          /\ exc' = ""
          /\ color_mode[a] = "COLORMAP"
          /\ color_property[a] \in DOMAIN properties
          /\ Len(properties[color_property[a]]) > 0
          => /\ contrast_limits[a] = NoLimits \/ op'[2] = "True"
                   => IsMinMaxOf(contrast_limits'[a], properties[color_property[a]])
             /\ contrast_limits[a] # NoLimits /\ op'[2] = "False"
                   => contrast_limits'[a] = contrast_limits[a]]_vars

\* a refresh with update_color_mapping=False kept limits that are not the
\* minimum and maximum of the property as it is now
C18_Witness ==
    /\ op = <<"refresh_colors", "False">>
    /\ exc = ""
    /\ color_mode["edge"] = "COLORMAP"
    /\ color_property["edge"] \in DOMAIN properties
    /\ Len(properties[color_property["edge"]]) > 0
    /\ contrast_limits["edge"] # NoLimits
    /\ ~IsMinMaxOf(contrast_limits["edge"], properties[color_property["edge"]])

\* the values the selected shapes have in a per-shape array
SelectedValues(array, selected) == {array[i + 1] : i \in selected}

\* current' is the value the selected shapes share when they share one, and
\* current otherwise
SharedOrKept(values, current_before, current_after) ==
    IF Cardinality(values) = 1
    THEN current_after = TheValue(values)
    ELSE current_after = current_before

\* C19: an assignment of selected_data that returns sets current_face_color,
\* current_edge_color, current_edge_width and current_properties each to the
\* value all selected shapes share when they share one (current_properties
\* as a whole: every property is shared), and leaves each as it was when the
\* selected shapes differ in it or nothing is selected.
C19_CurrentFollowsSelection ==
    [][op'[1] = "selected_data" /\ exc' = "" =>
          LET sel == selected_data'
              widths == [j \in 1..Len(shapes) |-> shapes[j].w]
              rows == {[k \in DOMAIN properties |-> properties[k][i + 1]] : i \in sel}
          IN /\ SharedOrKept(SelectedValues(face_color, sel),
                             current_face_color, current_face_color')
             /\ SharedOrKept(SelectedValues(edge_color, sel),
                             current_edge_color, current_edge_color')
             /\ SharedOrKept(SelectedValues(widths, sel),
                             current_edge_width, current_edge_width')
             /\ SharedOrKept(rows, current_properties, current_properties')]_vars

\* two shapes are selected that share an edge colour, which became the
\* current one, and that differ in the edge width and in a property
C19_Witness ==
    /\ op = <<"selected_data", "">>
    /\ exc = ""
    /\ selected_data = {0, 1}
    /\ Len(shapes) = 2
    /\ edge_color[1] = edge_color[2]
    /\ current_edge_color = edge_color[1]
    /\ current_edge_color # "black"
    /\ shapes[1].w # shapes[2].w
    /\ \E k \in DOMAIN properties : properties[k][1] # properties[k][2]

\* the indices of the shapes a call removes: remove_selected removes the
\* selected ones, _finish_drawing the shape in progress
RemovedIndices ==
    IF op'[1] = "remove_selected" THEN selected_data ELSE {moving_value[1]}

\* the selected indices that are not removed, each lowered by the number of
\* removed indices below it
Renumbered(selected, removed) ==
    {j - Cardinality({r \in removed : r < j}) : j \in selected \ removed}

\* a call other than an assignment of data returned and the layer has fewer
\* shapes than before
ShapesRemoved ==
    /\ op'[1] # "data"
    /\ exc' = ""
    /\ Len(shapes') < Len(shapes)

\* C20, as stated: a removal takes the removed indices out of the selection
\* and lowers the selected indices above them, so that the selected shapes
\* that survive stay selected under their new indices.
C20_SurvivorsStaySelected ==
    [][ShapesRemoved => selected_data' = Renumbered(selected_data, RemovedIndices)]_vars

\* C20, amended: every removal leaves the selection empty.  remove_selected
\* removes the selected shapes and assigns the empty selection;
\* _finish_drawing assigns the empty selection before it discards the shape
\* in progress, so a selected shape that survives is no longer selected.
C20_RemovalClearsSelection ==
    [][ShapesRemoved => selected_data' = {}]_vars

\* _finish_drawing has discarded the second shape, whose colour rows are
\* still there, and nothing is selected
C20_Witness ==
    /\ op = <<"finish_drawing", "">>
    /\ exc = ""
    /\ Len(shapes) = 1
    /\ Len(edge_color) = 2
    /\ ~is_creating
    /\ selected_data = {}

\* C21: after an assignment of selected_data the selected box is None
\* exactly when nothing is selected, and otherwise it has 10 points: the 8
\* corners and midpoints, the centre and the rotation handle.
C21_BoxMatchesSelection ==
    [][op'[1] = "selected_data" =>
          IF selected_data' = {}
          THEN selected_box' = NoBox
          ELSE /\ selected_box' # NoBox
               /\ Len(selected_box') = 10
               /\ SubSeq(selected_box', 1, 9) = Box9
               /\ selected_box'[10] = "ROTATION_HANDLE"]_vars

\* two shapes were selected and the box has its 10 points
C21_Witness ==
    /\ op = <<"selected_data", "">>
    /\ selected_data = {0, 1}
    /\ Len(selected_box) = 10

\* C22: in add and in remove_selected no colour is computed from a colour
\* cycle map or a colormap before the property arrays and the shape list
\* have been written: no "color" step of the call is followed by a
\* "properties" or a "shapes" step.
C22_RecomputeAfterMutation ==
    [][op'[1] \in {"add", "remove_selected"} =>
          \A i, j \in 1..Len(steps') :
              i < j /\ steps'[i] = "color" => steps'[j] \notin {"properties", "shapes"}]_vars

\* C23: an add with an explicit z_index that returns stores that z-index
\* on each shape it adds, whatever the value and whatever z-indices the
\* shapes there are have.
C23_ExplicitZIndexStored ==
    [][op'[1] = "add" /\ op'[2] # "" /\ exc' = "" =>
          \A j \in (Len(shapes) + 1)..Len(shapes') :
              ZIndexArg(shapes'[j].z) = op'[2]]_vars

\* every property array has one entry per shape
PropertiesAligned ==
    \A k \in DOMAIN properties : Len(properties[k]) = Len(shapes)

\* C24: an add of n shapes that returns, to a layer whose property arrays
\* have one entry per shape, appends n entries to every property array, each
\* the current_properties value of the property, and leaves the entries
\* there were as they are.
C24_AddPadsWithCurrent ==
    [][op'[1] = "add" /\ exc' = "" /\ PropertiesAligned =>
          /\ DOMAIN properties' = DOMAIN properties
          /\ \A k \in DOMAIN properties :
                /\ Len(properties'[k]) = Len(properties[k]) + (Len(shapes') - Len(shapes))
                /\ \A j \in 1..Len(properties'[k]) :
                      properties'[k][j] = IF j <= Len(properties[k])
                                          THEN properties[k][j]
                                          ELSE current_properties[k]]_vars

\* an add gave the second shape the current value of p, which is not the
\* value of the first shape
C24_Witness ==
    /\ op[1] = "add"
    /\ exc = ""
    /\ Len(shapes) = 2
    /\ DOMAIN properties = {"p"}
    /\ properties["p"] = <<"a", "b">>
    /\ current_properties["p"] = "b"

\* the shapes at the selected indices have the z-index z, the others have
\* the z-index they had, and nothing else of a shape changed
SelectedMovedTo(z) ==
    /\ Len(shapes') = Len(shapes)
    /\ \A j \in 1..Len(shapes) :
          shapes'[j] = IF (j - 1) \in selected_data
                       THEN [shapes[j] EXCEPT !.z = z] ELSE shapes[j]

\* C25: move_to_front gives every selected shape one z-index that is greater
\* than the z-index of every unselected shape, move_to_back one that is
\* smaller; the unselected shapes keep their z-indices, and with nothing
\* selected both leave the shapes as they are.
C25_MoveToFrontAndBack ==
    [][/\ op'[1] = "move_to_front" =>
             IF selected_data = {} THEN shapes' = shapes
             ELSE \E z \in (-MaxZ)..(MaxZ + 1) :
                     /\ SelectedMovedTo(z)
                     /\ \A j \in 1..Len(shapes) :
                           (j - 1) \notin selected_data => shapes[j].z < z
       /\ op'[1] = "move_to_back" =>
             IF selected_data = {} THEN shapes' = shapes
             ELSE \E z \in (-MaxZ - 1)..MaxZ :
                     /\ SelectedMovedTo(z)
                     /\ \A j \in 1..Len(shapes) :
                           (j - 1) \notin selected_data => z < shapes[j].z]_vars

\* the first of two shapes was moved to the front of the second
C25_Witness ==
    /\ op[1] = "move_to_front"
    /\ selected_data = {0}
    /\ Len(shapes) = 2
    /\ shapes[1].z > shapes[2].z

\* C26: a paste that returns with k >= 1 shapes on the clipboard leaves k
\* more shapes, selects exactly the k new indices and gives every pasted
\* shape a z-index above that of every shape there was; with an empty
\* clipboard it leaves the shapes, their colours and properties and the
\* selection as they are.
C26_PasteAddsSelectsRaises ==
    [][op'[1] = "paste" /\ exc' = "" =>
          LET k == Len(clipboard.data)
              cur_shapes == Len(shapes)
          IN IF k = 0
             THEN /\ shapes' = shapes
                  /\ edge_color' = edge_color /\ face_color' = face_color
                  /\ properties' = properties
                  /\ selected_data' = selected_data
             ELSE /\ Len(shapes') = cur_shapes + k
                  /\ selected_data' = cur_shapes..(cur_shapes + k - 1)
                  /\ \A j \in (cur_shapes + 1)..(cur_shapes + k) :
                        \A i \in 1..cur_shapes : shapes'[j].z > shapes[i].z]_vars

\* a copy of the first shape was pasted: it is the second shape, selected
\* and above the first
C26_Witness ==
    /\ op[1] = "paste"
    /\ exc = ""
    /\ Len(clipboard.data) = 1
    /\ Len(shapes) = 2
    /\ selected_data = {1}
    /\ shapes[2].z > shapes[1].z

\* C27: _rotate_box, _scale_box and _transform_box write the selected box
\* and nothing else of the layer: the shapes, the colour and property
\* arrays, the selection and every other field stay as they are.
C27_BoxTransformsWriteBoxOnly ==
    [][op'[1] \in {"_rotate_box", "_scale_box", "_transform_box"} =>
          /\ exc' = "" => selected_box' # selected_box
          /\ UNCHANGED <<shapes, edge_color, face_color, properties,
                         current_properties, current_edge_color,
                         current_face_color, current_edge_width, color_mode,
                         color_property, color_cycle, color_cycle_pos,
                         color_cycle_map, contrast_limits, selected_data,
                         mode, editable, ndisplay, ndisplay_stored, cursor,
                         interactive, help, mouse_drag_callbacks,
                         mouse_move_callbacks, is_moving, is_selecting,
                         is_creating, drag_start, drag_box, fixed_vertex,
                         value, moving_value, allow_thumbnail_update,
                         clipboard, scopes>>]_vars

\* the box of two selected shapes was turned: its first point is where the
\* bottom right corner was and the handle is below the box
C27_Witness ==
    /\ op[1] = "_rotate_box"
    /\ exc = ""
    /\ selected_data = {0, 1}
    /\ Len(selected_box) = 10
    /\ selected_box[1] = "BOTTOM_RIGHT"
    /\ selected_box[10] = "ROTATION_HANDLE_BELOW"

\* C28: run raises RuntimeError if no widgets would be shown upon starting
\* the event loop: a QApplication exists, it has no top-level widgets and
\* force is false (IPython's Qt event loop not being active).
C28_RaisesWithoutWidgets ==
    (op = <<"run", "">> /\ qt.app /\ ~qt.widgets /\ ~qt.force /\ ~qt.ipython)
        => exc = "RuntimeError"

\* C29: run never enters QApplication.exec_ when the application thread
\* already has at least max_loop_level event loops running, nor when
\* IPython's Qt event loop is active: it then returns without blocking and
\* without raising; and every call enters the event loop at most once.
C29_NoLoopBeyondLevel ==
    [][op' = <<"run", "">> =>
          /\ qt'.entered <= 1
          /\ qt'.loop_level = qt.loop_level + qt'.entered
          /\ (qt.ipython \/ qt.loop_level >= qt'.max_loop_level) =>
                 /\ qt'.entered = 0
                 /\ exc' = ""]_vars

C29_Witness ==
    /\ op = <<"run", "">>
    /\ ~qt.ipython
    /\ qt.loop_level >= qt.max_loop_level
    /\ qt.entered = 0
    /\ "A QApplication is already running" \in warnings

\* C30: a mode change between two modes of {SELECT, DIRECT, VERTEX_INSERT,
\* VERTEX_REMOVE} leaves selected_data, the selected box, the drag and
\* creation flags and all shapes, with their colours, unchanged.
C30_EditModeChangeKeepsState ==
    [][(/\ mode' # mode
        /\ mode \in {"SELECT", "DIRECT", "VERTEX_INSERT", "VERTEX_REMOVE"}
        /\ mode' \in {"SELECT", "DIRECT", "VERTEX_INSERT", "VERTEX_REMOVE"}) =>
           /\ op'[1] = "mode"
           /\ exc' = ""
           /\ selected_data' = selected_data
           /\ selected_box' = selected_box
           /\ is_moving' = is_moving
           /\ is_selecting' = is_selecting
           /\ is_creating' = is_creating
           /\ drag_start' = drag_start
           /\ drag_box' = drag_box
           /\ shapes' = shapes
           /\ edge_color' = edge_color
           /\ face_color' = face_color]_vars

\* C30 witness: a change into VERTEX_INSERT has kept a selection, its box and
\* a move in progress; a change from outside the group would have cleared
\* them.
C30_Witness ==
    /\ op = <<"mode", "VERTEX_INSERT">>
    /\ mode = "VERTEX_INSERT"
    /\ selected_data # {}
    /\ selected_box # NoBox
    /\ is_moving
    /\ shapes # <<>>

\* the mode events a call emitted, in order
ModeEvents(log) == SelectSeq(log, LAMBDA label : label \in Modes)

\* C31: assigning the mode the layer already has is a no-op: no callback list
\* changes, no mode event is emitted and no finalisation runs; assigning a
\* different mode on an editable layer emits exactly one mode event, carrying
\* the new mode.
C31_ModeEventOncePerChange ==
    [][op'[1] = "mode" =>
          IF op'[2] = mode
          THEN /\ ModeEvents(steps') = <<>>
               /\ mouse_drag_callbacks' = mouse_drag_callbacks
               /\ mouse_move_callbacks' = mouse_move_callbacks
               /\ mode' = mode
               /\ DrawStateKept
          ELSE editable =>
                   /\ ModeEvents(steps') = <<op'[2]>>
                   /\ mode' = op'[2]]_vars

\* C31 witness: an editable layer has changed into ADD_PATH and emitted the
\* one event of that mode.
C31_Witness ==
    /\ op = <<"mode", "ADD_PATH">>
    /\ editable
    /\ mode = "ADD_PATH"
    /\ steps = <<"ADD_PATH">>

C33_MappedChannelHasProperty ==
    \A a \in Attributes :
        color_mode[a] \in {"CYCLE", "COLORMAP"} =>
            color_property[a] \in DOMAIN properties

\* C34: _set_view_slice empties selected_data whenever the slice key, the
\* number of displayed dimensions or the dimension order differs from the
\* stored one, and leaves the selection unchanged when none of the three
\* changed.
C34_SliceChangeClearsSelection ==
    [][op'[1] = "slice_dims" =>
          IF \/ ndisplay' # ndisplay_stored
             \/ view'.order # view.order_stored
             \/ view'.slice_key # view.slice_key
          THEN selected_data' = {} /\ selected_box' = NoBox
          ELSE selected_data' = selected_data /\ selected_box' = selected_box]_vars

\* C34 witness: the slider was set to the position it already had, with a
\* shape selected, and the selection is still there.
C34_Witness ==
    /\ op = <<"slice_dims", "point">>
    /\ selected_data # {}
    /\ selected_box # NoBox

\* the dimensions (1-based) that are not displayed
Sliced == {DimsNotDisplayed(Layer)[i] + 1 : i \in 1..Len(DimsNotDisplayed(Layer))}

\* a paste that returns has appended, for each shape of the clipboard, that
\* shape with every non-displayed coordinate shifted by the current slice
\* index minus the slice index at copy time, and has left the displayed
\* coordinates, the shapes there were and the clipboard as they were
PastedShifted ==
    /\ Len(shapes') = Len(shapes) + Len(clipboard.data)
    /\ \A j \in 1..Len(clipboard.data) :
          LET s == shapes'[Len(shapes) + j]
              c == clipboard.data[j]
          IN /\ \A d \in Sliced :
                    s.p[d] = c.p[d] + (view.point[d] - clipboard.indices[d])
             /\ \A d \in (1..2) \ Sliced : s.p[d] = c.p[d]
             /\ s.kind = c.kind /\ s.n = c.n /\ s.w = c.w
    /\ \A i \in 1..Len(shapes) : shapes'[i] = shapes[i]
    /\ clipboard' = clipboard

\* C38 as stated: shapes pasted after the slice position changed since the
\* copy have each non-displayed coordinate shifted by (current slice index
\* minus slice index at copy time), so every pasted shape lies in the
\* currently displayed slice, while its displayed coordinates and the copied
\* originals are unchanged.
C38_PastedInDisplayedSlice ==
    [][(/\ op'[1] = "paste" /\ exc' = "" /\ clipboard.data # <<>>
        /\ \E d \in Sliced : view.point[d] # clipboard.indices[d]) =>
          /\ PastedShifted
          /\ \A j \in 1..Len(clipboard.data) : \A d \in Sliced :
                 shapes'[Len(shapes) + j].p[d] = view.point[d]]_vars

\* C38 amended: pasted shapes, after a change of the slice position or not,
\* have each non-displayed coordinate shifted as stated, with their displayed
\* coordinates and the copied originals unchanged; a pasted shape lies in the
\* currently displayed slice when the shape it was copied from lay in the
\* slice displayed at copy time.
C38_PastedShiftedBySliceChange ==
    [][op'[1] = "paste" /\ exc' = "" /\ clipboard.data # <<>> =>
          /\ PastedShifted
          /\ \A j \in 1..Len(clipboard.data) : \A d \in Sliced :
                 clipboard.data[j].p[d] = clipboard.indices[d] =>
                     shapes'[Len(shapes) + j].p[d] = view.point[d]]_vars

\* C38 witness: a shape copied on one slice has been pasted on another, and
\* the pasted shape lies on the displayed slice, apart from its original.
C38_Witness ==
    /\ op = <<"paste", "">>
    /\ ndisplay = 2
    /\ Len(shapes) = 2
    /\ Len(clipboard.data) = 1
    /\ clipboard.indices[view.order[1] + 1] # view.point[view.order[1] + 1]
    /\ clipboard.data[1].p[view.order[1] + 1] = clipboard.indices[view.order[1] + 1]
    /\ shapes[2].p[view.order[1] + 1] = view.point[view.order[1] + 1]
    /\ shapes[1].p = clipboard.data[1].p

\* the number of shapes in the data a data assignment was given
Assigned(arg) == CHOOSE n \in 0..3 : <<"0", "1", "2", "3">>[n + 1] = arg

\* C35: assigning data with n shapes yields a layer with exactly n shapes and
\* n entries in each colour array, in which every shape below min(n, previous
\* count) keeps its previous edge width, z-index, edge colour and face colour,
\* and every shape beyond the previous count gets edge width 1, z-index 0 and
\* the current new-shape colours.
C35_DataKeepsStyles ==
    [][op'[1] = "data" /\ exc' = "" =>
          LET n == Assigned(op'[2]) IN
          /\ Len(shapes') = n
          /\ Len(edge_color') = n
          /\ Len(face_color') = n
          /\ \A i \in 1..n :
                IF i <= Len(shapes)
                THEN /\ shapes'[i].w = shapes[i].w
                     /\ shapes'[i].z = shapes[i].z
                     /\ edge_color'[i] = edge_color[i]
                     /\ face_color'[i] = face_color[i]
                ELSE /\ shapes'[i].w = 1
                     /\ shapes'[i].z = 0
                     /\ edge_color'[i] = GetNewShapeColor(Layer, 1, "edge")[1]
                     /\ face_color'[i] = GetNewShapeColor(Layer, 1, "face")[1]]_vars

\* the style values of the shapes that a current-value setter writes: the
\* edge widths, the edge colours or the face colours, one entry per shape
StyleEntries(name, shape_list, edge_colors, face_colors) ==
    CASE name = "current_edge_width" -> [j \in 1..Len(shape_list) |-> shape_list[j].w]
      [] name = "current_edge_color" -> edge_colors
      [] OTHER -> face_colors

\* C36: assigning current_edge_color, current_face_color or current_edge_width
\* outside a block_update_properties scope applies the new value to exactly
\* the currently selected shapes and leaves the value of every unselected
\* shape unchanged; inside such a scope no shape is changed.
C36_CurrentValueToSelection ==
    [][op'[1] \in {"current_edge_width", "current_edge_color", "current_face_color"} =>
          LET before == StyleEntries(op'[1], shapes, edge_color, face_color)
              after == StyleEntries(op'[1], shapes', edge_color', face_color')
              new == CASE op'[1] = "current_edge_width" -> current_edge_width'
                       [] op'[1] = "current_edge_color" -> current_edge_color'
                       [] OTHER -> current_face_color'
          IN /\ exc' = ""
             /\ Len(after) = Len(before)
             /\ \A j \in 1..Len(before) :
                   after[j] = IF op'[2] = "" /\ (j - 1) \in selected_data
                              THEN new ELSE before[j]
             /\ \A other \in {"current_edge_width", "current_edge_color",
                              "current_face_color"} \ {op'[1]} :
                   StyleEntries(other, shapes', edge_color', face_color')
                       = StyleEntries(other, shapes, edge_color, face_color)]_vars

\* C36 witness: with the first of two shapes selected the current edge colour
\* was set to red outside a scope: the first shape is red, the second is not.
C36_Witness ==
    /\ op = <<"current_edge_color", "">>
    /\ selected_data = {0}
    /\ Len(shapes) = 2
    /\ edge_color[1] = "red"
    /\ edge_color[2] # "red"

\* C37: a shape added without a z_index gets a z-index one greater than the
\* current maximum z-index of the layer (0 in an empty layer), so a newly
\* added shape is never below an existing one.
C37_DefaultZIndexOnTop ==
    [][op' = <<"add", "">> /\ exc' = "" =>
          \A j \in (Len(shapes) + 1)..Len(shapes') :
              /\ shapes = <<>> => shapes'[j].z = 0
              /\ shapes # <<>> =>
                    \E i \in 1..Len(shapes) : shapes'[j].z = shapes[i].z + 1
              /\ \A i \in 1..Len(shapes) : shapes'[j].z > shapes[i].z]_vars

\* C37 witness: a shape was added without z_index to a layer whose one shape
\* had been moved to the back, and got the z-index above it.
C37_Witness ==
    /\ op = <<"add", "">>
    /\ exc = ""
    /\ Len(shapes) = 2
    /\ shapes[1].z = -1
    /\ shapes[2].z = 0

\* C39: after any sequence of clicks and changes of the mirrored attribute,
\* a QtStateButton is checked exactly when the attribute equals the on-state;
\* a click sets the attribute to the on-state when the button is checked and
\* to the off-state otherwise; handling a change event never writes the
\* attribute.
C39_ButtonMirrorsAttribute ==
    [][/\ qt'.button # NoButton =>
             (qt'.button.checked <=> qt'.button.target = qt'.button.onstate)
       /\ op' = <<"click", "">> =>
             /\ qt'.button.checked = ~qt.button.checked
             /\ qt'.button.target = IF qt'.button.checked
                                    THEN qt.button.onstate
                                    ELSE qt.button.offstate
             /\ qt'.button.setattr = 1
       /\ op'[1] = "setattr" =>
             /\ qt'.button.target = op'[2]
             /\ qt'.button.setattr = 1
       /\ op' = <<"event", "">> =>
             /\ qt'.button.target = qt.button.target
             /\ qt'.button.setattr = 0]_vars

\* C39 witness: the ndisplay button, built unchecked on ndisplay = 3, has been
\* clicked and is checked with ndisplay = 2.
C39_Witness ==
    /\ op = <<"click", "">>
    /\ qt.button.name = "ndisplay_button"
    /\ qt.button.checked
    /\ qt.button.target = "2"

====
